---- MODULE Spec2Model ----
(***************************************************************************)
(* A model of the pwdusage usage engine (engine.py, common.py,             *)
(* base_agent.py, simple_agent.py): configuration load (plans, seasons,    *)
(* calendar), the calendar resolver, the tariff period masks, the supply   *)
(* allocation waterfall and the reload lock.                               *)
(*                                                                         *)
(* Time is an integer count of hours; floats are modelled by integers.     *)
(***************************************************************************)
EXTENDS Integers, Sequences, FiniteSets, TLC

VARIABLES
    config_file,    \* what usage.json (CONFIGFILE) holds
    _influx_client, \* UsageEngine._influx_client (class variable)
    _priority,      \* UsageEngine._priority: list of PDColName members
    _plans,         \* UsageEngine._plans: plan name -> UsagePlan
    _calendar,      \* UsageEngine._calendar: the CalendarEntry list, in dict order
    agents_made,    \* how many usage agent instances were constructed so far
    outcome,        \* how the last call ended: "none", "ok" or "raised"
    _range_start,   \* UsageEngine._range_start (instance variable)
    _range_stop,    \* UsageEngine._range_stop (instance variable)
    calls,          \* the _apply_calendar calls of the request so far, in order
    _report_cols,   \* UsageEngine._report_cols: report column name -> type
    invocations,    \* the usage agent invocations of the request so far, in order
    frame,          \* UsageEngine._frame: timestamp -> (column label -> value)
    _lock,          \* UsageEngine._lock: the thread that holds it, NoThread when free
    pc,             \* where each request thread of the server is
    config_read,    \* the config each thread read from usage.json in reload_config
    history,        \* the handlers served to their end so far, one after another
    response,       \* the table usage() returns, <<>> when none was assembled
    engines         \* the UsageEngine instances of concurrent requests, by thread

classVars == <<_influx_client, _priority, _plans, _calendar>>
rangeVars == <<_range_start, _range_stop, calls, _report_cols, invocations>>
threadVars == <<_lock, pc, config_read>>
vars == <<config_file, _influx_client, _priority, _plans, _calendar, agents_made,
          outcome, _range_start, _range_stop, calls, _report_cols, invocations, frame,
          _lock, pc, config_read, history, response, engines>>

None == "NoneValue"

NoThread == 0    \* the lock is free

\* No request thread is running (the call is followed on its own).
NoThreads == _lock = NoThread /\ pc = <<>> /\ config_read = <<>>

\* No request is being served.
NoRange ==
    /\ _range_start = 0
    /\ _range_stop = 0
    /\ calls = <<>>
    /\ _report_cols = <<>>
    /\ invocations = <<>>

\* ------------------------------------------------------------------------
\* common.py: PDColName. A member is represented by its name; Value gives
\* the member's string value (the pandas column label).
\* ------------------------------------------------------------------------
PDColName ==
    [ GRID_SUPPLY |-> "Grid supply",
      GRID_EXPORT |-> "Grid export",
      PW_SUPPLY |-> "PW supply",
      HOME_DEMAND |-> "Home Demand",
      SOLAR_SUPPLY |-> "Solar supply",
      GRID_TO_HOME |-> "Grid to Home",
      PW_TO_HOME |-> "PW to Home",
      SOLAR_TO_HOME |-> "Solar to Home",
      GRID_CHARGING |-> "Grid charging",
      RESIDUAL_DEMAND_1 |-> "Home demand ex supply 1",
      RESIDUAL_DEMAND_2 |-> "Home demand ex supply 1+2",
      RESIDUAL_DEMAND_FINAL |-> "Home demand ex supplies",
      SELF_PW_NET_OF_GRID |-> "PW to home-grid charge",
      SELF_SOLAR_PLUS_RES |-> "Solar to home+residual",
      SELF_TOTAL |-> "Self consumption",
      SUPPLY_CHARGE |-> "Supply Charge",
      TARIFF |-> "Tariff",
      TIME |-> "_time" ]

Value(member) == PDColName[member]

\* PDColName.from_str: the member whose NAME is str_v, None otherwise.
from_str(str_v) == IF str_v \in DOMAIN PDColName THEN str_v ELSE None

\* ------------------------------------------------------------------------
\* engine.py module constants
\* ------------------------------------------------------------------------
SUPPLY_TO_DEMAND ==
    [ GRID_SUPPLY |-> "GRID_TO_HOME",
      PW_SUPPLY |-> "PW_TO_HOME",
      SOLAR_SUPPLY |-> "SOLAR_TO_HOME" ]

RESIDUALS == <<"RESIDUAL_DEMAND_1", "RESIDUAL_DEMAND_2", "RESIDUAL_DEMAND_FINAL">>

\* The columns _get_influx_data delivers (the values of INFLUX_TO_PANDAS).
INFLUX_TO_PANDAS ==
    { "GRID_SUPPLY", "GRID_EXPORT", "PW_SUPPLY", "SOLAR_SUPPLY", "HOME_DEMAND" }

\* ------------------------------------------------------------------------
\* Bounds
\* ------------------------------------------------------------------------
MaxDemand == 10     \* largest home demand of a row
MaxSupply == 4      \* largest supply reading of a row
MinReading == 1     \* readings go down to -MinReading (telemetry noise)

Demands == (0 - MinReading) .. MaxDemand
Supplies == (0 - MinReading) .. MaxSupply

\* ------------------------------------------------------------------------
\* UsageEngine._init_settings: the supply priority
\* ------------------------------------------------------------------------
DefaultPriority == <<"GRID_SUPPLY", "PW_SUPPLY", "SOLAR_SUPPLY">>

SeqRange(s) == { s[i] : i \in DOMAIN s }

SUPPLY_PRIORITY == "supplyPriority"

\* The settings documents tried: with and without a supplyPriority list, whose
\* entries are names, some of them unknown to PDColName.
PriorityNames == { "GRID_SUPPLY", "PW_SUPPLY", "SOLAR_SUPPLY", "HOME_DEMAND", "grid" }
PriorityLists == UNION { [1..n -> PriorityNames] : n \in 2..4 }
SettingsDocs ==
    { [bucket |-> "powerwall"] }
        \cup { [bucket |-> "powerwall", supplyPriority |-> p] : p \in PriorityLists }

\* Only the presence of the three sources is tested.
PriorityRejected_AllFound(settings) ==
    /\ SUPPLY_PRIORITY \in DOMAIN settings
    /\ \E x \in SeqRange(DefaultPriority) :
          x \notin { from_str(settings[SUPPLY_PRIORITY][i]) :
                        i \in DOMAIN settings[SUPPLY_PRIORITY] }

\* TRUE when _init_settings raises TypeError for these settings.
PriorityRejected(settings) ==
    /\ SUPPLY_PRIORITY \in DOMAIN settings
    /\ LET priority == [i \in DOMAIN settings[SUPPLY_PRIORITY] |->
                            from_str(settings[SUPPLY_PRIORITY][i])]
           all_found == \A x \in SeqRange(DefaultPriority) : x \in SeqRange(priority)
       IN  ~all_found \/ Len(settings[SUPPLY_PRIORITY]) # 3

\* cls._priority after _init_settings accepted the settings.
InitPriority(settings) ==
    IF SUPPLY_PRIORITY \in DOMAIN settings
    THEN [i \in DOMAIN settings[SUPPLY_PRIORITY] |-> from_str(settings[SUPPLY_PRIORITY][i])]
    ELSE DefaultPriority

\* ------------------------------------------------------------------------
\* Python dicts keep insertion order: a dict is a sequence of <<key, value>>
\* pairs with distinct keys.
\* ------------------------------------------------------------------------
Keys(d) == { d[i][1] : i \in DOMAIN d }
Has(d, k) == k \in Keys(d)
Get(d, k) == d[CHOOSE i \in DOMAIN d : d[i][1] = k][2]
\* d[k] = v: in place when k is a key already, appended otherwise.
Put(d, k, v) ==
    IF Has(d, k) THEN [i \in DOMAIN d |-> IF d[i][1] = k THEN <<k, v>> ELSE d[i]]
    ELSE Append(d, <<k, v>>)
DictValues(d) == [i \in DOMAIN d |-> d[i][2]]

\* df[label] = v on one row
SetCol(row, label, v) ==
    [k \in DOMAIN row \cup {label} |-> IF k = label THEN v ELSE row[k]]

\* ------------------------------------------------------------------------
\* TariffPeriod, TariffSchedule and UsagePlan._init_seasons
\* ------------------------------------------------------------------------
SlotsPerDay == 24    \* times of day are whole hours 0 .. SlotsPerDay - 1

\* A time-of-day string is <<hour, format>>: "14:00" and "14:00:00" are two
\* strings for one time. time.fromisoformat gives the time (an hour here).
TimeStrOk(t_str) == t_str[1] \in 0 .. (SlotsPerDay - 1)
time_fromisoformat(t_str) == t_str[1]

\* The "periods" mapping of a schedule is a dict time string -> tariff name.
\* TRUE when building the periods raises (no entry at all: list(...)[-1]; a
\* string that is no time).
PeriodsRaise(periods_json) ==
    \/ Len(periods_json) = 0
    \/ \E i \in DOMAIN periods_json : ~TimeStrOk(periods_json[i][1])

TariffPeriod(tariff, start, end) == [tariff |-> tariff, start |-> start, end |-> end]

\* The list of TariffPeriod built from a non-empty "periods" mapping: one per
\* pair of successive entries, then the last entry, which ends at the first
\* entry's time (at its own when it is the only one).
BuildPeriods(periods_json) ==
    LET n == Len(periods_json)
        this == periods_json[n]
        next == IF n = 1 THEN this ELSE periods_json[1]
    IN  [i \in 1 .. (n - 1) |->
            TariffPeriod(periods_json[i][2],
                         time_fromisoformat(periods_json[i][1]),
                         time_fromisoformat(periods_json[i + 1][1]))]
        \o << TariffPeriod(this[2], time_fromisoformat(this[1]),
                           time_fromisoformat(next[1])) >>

TariffSchedule(name, days, periods) == [name |-> name, days |-> days, periods |-> periods]

\* The keyword arguments built from one schedule of the plan's json.
ScheduleKwarg(schedule_json) ==
    [k \in (DOMAIN schedule_json \cap {"days", "periods"}) \cup {"name"} |->
        CASE k = "name" -> schedule_json["schedule"]
          [] k = "days" -> SeqRange(schedule_json["days"])
          [] OTHER -> BuildPeriods(schedule_json["periods"])]

\* dataclasses.replace(obj, **kwarg): the fields of kwarg replace obj's.
dc_replace(obj, kwarg) ==
    [f \in DOMAIN obj |-> IF f \in DOMAIN kwarg THEN kwarg[f] ELSE obj[f]]

\* TRUE when the schedule raises: no "schedule" name, bad periods, or a
\* schedule new to the plan without both "days" and "periods".
ScheduleRaises(prev_season, schedule_json) ==
    \/ "schedule" \notin DOMAIN schedule_json
    \/ "periods" \in DOMAIN schedule_json /\ PeriodsRaise(schedule_json["periods"])
    \/ /\ ~Has(prev_season, schedule_json["schedule"])
       /\ ~({"days", "periods"} \subseteq DOMAIN schedule_json)

\* season[schedule_name] = ... for one schedule that does not raise.
\* prev_season is the previous season's dict, the empty dict for the first
\* season (None in the code, which it tests before every use).
AddSchedule(season, prev_season, schedule_json) ==
    LET kwarg == ScheduleKwarg(schedule_json)
        schedule_name == schedule_json["schedule"]
    IN  IF Has(prev_season, schedule_name)
        THEN Put(season, schedule_name, dc_replace(Get(prev_season, schedule_name), kwarg))
        ELSE Put(season, schedule_name,
                 TariffSchedule(kwarg["name"], kwarg["days"], kwarg["periods"]))

RECURSIVE AddSchedules(_, _, _, _)
AddSchedules(season, prev_season, schedules, i) ==
    IF i > Len(schedules) THEN season
    ELSE AddSchedules(AddSchedule(season, prev_season, schedules[i]),
                      prev_season, schedules, i + 1)

\* The season keeps only the schedules it names.
CopyUnchanged_NoCopy(season, prev_season, i) == season

\* "Finally, duplicate any unchanged schedules from previous season."
RECURSIVE CopyUnchanged(_, _, _)
CopyUnchanged(season, prev_season, i) ==
    IF i > Len(prev_season) THEN season
    ELSE CopyUnchanged(IF Has(season, prev_season[i][1]) THEN season
                       ELSE Put(season, prev_season[i][1], prev_season[i][2]),
                       prev_season, i + 1)

BuildSeason(prev_season, schedules) ==
    CopyUnchanged(AddSchedules(<<>>, prev_season, schedules, 1), prev_season, 1)

\* _init_seasons over the first n seasons of the json: [ok |-> FALSE] when a
\* schedule raised, else ok and self._seasons (a dict season name -> season).
RECURSIVE SeasonsUpTo(_, _)
SeasonsUpTo(seasons_json, n) ==
    IF n = 0 THEN [ok |-> TRUE, seasons |-> <<>>]
    ELSE LET done == SeasonsUpTo(seasons_json, n - 1)
             prev_season == IF n = 1 THEN <<>> ELSE done.seasons[n - 1][2]
             schedules == seasons_json[n][2]
         IN  IF ~done.ok THEN done
             ELSE IF \E j \in DOMAIN schedules : ScheduleRaises(prev_season, schedules[j])
             THEN [ok |-> FALSE, seasons |-> <<>>]
             ELSE [ok |-> TRUE,
                   seasons |-> Append(done.seasons,
                                      <<seasons_json[n][1],
                                        BuildSeason(prev_season, schedules)>>)]

_init_seasons(plan_json) ==
    IF "seasons" \notin DOMAIN plan_json THEN [ok |-> FALSE, seasons |-> <<>>]
    ELSE SeasonsUpTo(plan_json["seasons"], Len(plan_json["seasons"]))

\* ------------------------------------------------------------------------
\* Usage agents (base_agent.py, simple_agent.py) and UsagePlan
\* ------------------------------------------------------------------------
\* The agent classes _get_agent knows, each with what its can_persist()
\* returns. "Simple" is SimpleAgent. "Transient" stands for an agent class
\* added to the match statement the way its comment asks, whose can_persist()
\* returns False (UsageAgent leaves the choice to each class).
AgentClasses == [Simple |-> TRUE, Transient |-> FALSE]
can_persist(agent_class) == AgentClasses[agent_class]

NoAgent == 0    \* self._agent is None

\* TRUE when UsagePlan(plan_json) raises.
UsagePlanRaises(plan_json) ==
    \/ "name" \notin DOMAIN plan_json
    \/ "agent" \notin DOMAIN plan_json
    \/ plan_json["agent"] \notin DOMAIN AgentClasses
    \/ "report" \notin DOMAIN plan_json
    \/ \E i \in DOMAIN plan_json["report"] : from_str(plan_json["report"][i]) = None
    \/ ~_init_seasons(plan_json).ok

\* The plan object UsagePlan(plan_json) builds; new_agent is the identity of
\* the agent instance _get_agent constructs when the class can persist.
UsagePlan(plan_json, new_agent) ==
    [ _name |-> plan_json["name"],
      _agent_class |-> plan_json["agent"],
      _agent |-> IF can_persist(plan_json["agent"]) THEN new_agent ELSE NoAgent,
      report_cols |-> [i \in DOMAIN plan_json["report"] |-> from_str(plan_json["report"][i])],
      _seasons |-> _init_seasons(plan_json).seasons ]

season_defined(plan, season) == Has(plan._seasons, season)
season_schedules(plan, season) == Get(plan._seasons, season)

schedule_tariff_defined(schedule, tariff) ==
    \E i \in DOMAIN schedule.periods : schedule.periods[i].tariff = tariff

\* Only the season is looked up.
tariff_defined_SeasonOnly(plan, season, tariff) == Has(plan._seasons, season)

tariff_defined(plan, season, tariff) ==
    /\ Has(plan._seasons, season)
    /\ \E i \in DOMAIN season_schedules(plan, season) :
          schedule_tariff_defined(season_schedules(plan, season)[i][2], tariff)

\* ------------------------------------------------------------------------
\* CalendarEntry and UsageEngine._load_calendar
\* ------------------------------------------------------------------------
NoEndDate == -1     \* end_date is None

\* A rate table is a dict rate name -> rate. In the json the names are plain
\* strings (raw); __post_init__ replaces the table by one keyed by PDColName
\* members. A tariffs mapping is [raw |-> BOOLEAN, tables |-> dict tariff
\* name -> rate table]: raw as the json supplies it, not raw once an entry
\* was validated with it (a later entry inherits the validated mapping).
RateTableRaises(rate_table) ==
    \E i \in DOMAIN rate_table : from_str(rate_table[i][1]) = None

Sanitize(tariffs) ==
    [ raw |-> FALSE,
      tables |-> [i \in DOMAIN tariffs.tables |->
                    << tariffs.tables[i][1],
                       [j \in DOMAIN tariffs.tables[i][2] |->
                           << from_str(tariffs.tables[i][2][j][1]),
                              tariffs.tables[i][2][j][2] >>] >>] ]

\* TRUE when CalendarEntry.__post_init__ raises for these field values.
PostInitRaises(plan, season, tariffs, plans) ==
    \/ plan \notin DOMAIN plans
    \/ ~season_defined(plans[plan], season)
    \/ \E i \in DOMAIN tariffs.tables :
          \/ ~tariff_defined(plans[plan], season, tariffs.tables[i][1])
          \/ tariffs.raw /\ RateTableRaises(tariffs.tables[i][2])

CalendarEntry(start_date, plan, season, tariffs, end_date) ==
    [ start_date |-> start_date, plan |-> plan, season |-> season,
      tariffs |-> IF tariffs.raw THEN Sanitize(tariffs) ELSE tariffs,
      end_date |-> end_date ]

\* A date string is <<date, utc offset>>; fromisoformat(...).replace(tzinfo=)
\* keeps the date and time and drops the offset.
datetime_fromisoformat(d_str) == d_str[1]

\* The dict comprehension of _load_calendar: keys converted, a later item of
\* the json replacing an earlier one that converts to the same datetime.
RECURSIVE ConvertKeys(_, _)
ConvertKeys(calendar_json, n) ==
    IF n = 0 THEN <<>>
    ELSE Put(ConvertKeys(calendar_json, n - 1),
             datetime_fromisoformat(calendar_json[n][1]), calendar_json[n][2])

\* The calendar is left in the order of the json.
SortByKey_Unsorted(d) == d

\* dict(sorted(calendar.items())): the keys are distinct, the order is theirs.
RECURSIVE SortByKey(_)
SortByKey(d) ==
    IF Len(d) = 0 THEN <<>>
    ELSE LET i == CHOOSE i \in DOMAIN d : \A j \in DOMAIN d : d[i][1] <= d[j][1]
         IN  << d[i] >> \o SortByKey([k \in 1 .. (Len(d) - 1) |->
                                        IF k < i THEN d[k] ELSE d[k + 1]])

SortedCalendar(calendar_json) == SortByKey(ConvertKeys(calendar_json, Len(calendar_json)))

\* The field values of the entry built from data: kwargs over the previous
\* entry (dc_replace), or kwargs alone for the first entry.
EntryKwargs(date_v, data) ==
    [k \in (DOMAIN data \cap {"plan", "season", "tariffs"}) \cup {"start_date"} |->
        IF k = "start_date" THEN date_v ELSE data[k]]

\* Every entry is built as the first one is.
EntryRaises_AsFirst(first_entry, prev_event, date_v, data, plans) ==
    \/ ~({"plan", "season", "tariffs"} \subseteq DOMAIN data)
    \/ PostInitRaises(data["plan"], data["season"], data["tariffs"], plans)

\* TRUE when building the entry raises.
EntryRaises(first_entry, prev_event, date_v, data, plans) ==
    IF first_entry
    THEN \/ ~({"plan", "season", "tariffs"} \subseteq DOMAIN data)
         \/ PostInitRaises(data["plan"], data["season"], data["tariffs"], plans)
    ELSE LET e == dc_replace(prev_event, EntryKwargs(date_v, data))
         IN  PostInitRaises(e.plan, e.season, e.tariffs, plans)

BuildEntry(first_entry, prev_event, date_v, data) ==
    IF first_entry
    THEN CalendarEntry(date_v, data["plan"], data["season"], data["tariffs"], NoEndDate)
    ELSE LET e == dc_replace(prev_event, EntryKwargs(date_v, data))
         IN  CalendarEntry(e.start_date, e.plan, e.season, e.tariffs, e.end_date)

\* The entry loop of _load_calendar over the first n sorted items:
\* [ok |-> FALSE, ...] when an entry raised, with cls._calendar as the loop
\* left it (the entries before the one that raised).
RECURSIVE EntriesUpTo(_, _, _)
EntriesUpTo(calendar, plans, n) ==
    IF n = 0 THEN [ok |-> TRUE, entries |-> <<>>]
    ELSE LET done == EntriesUpTo(calendar, plans, n - 1)
             prev_event == IF n = 1 THEN <<>> ELSE done.entries[n - 1]
         IN  IF ~done.ok THEN done
             ELSE IF EntryRaises(n = 1, prev_event, calendar[n][1], calendar[n][2], plans)
             THEN [ok |-> FALSE, entries |-> done.entries]
             ELSE [ok |-> TRUE,
                   entries |-> Append(done.entries,
                                      BuildEntry(n = 1, prev_event,
                                                 calendar[n][1], calendar[n][2]))]

\* The entries are left as the loop built them, every end_date None.
SetEndDates_None(entries) == entries

\* for this, next in pairwise(cls._calendar.values()): this.end_date = next.start_date
SetEndDates(entries) ==
    [i \in DOMAIN entries |->
        IF i < Len(entries)
        THEN [entries[i] EXCEPT !.end_date = entries[i + 1].start_date]
        ELSE entries[i]]

\* _load_calendar: ok or not, and cls._calendar when it returns or raises.
_load_calendar(calendar_json, plans) ==
    LET calendar == SortedCalendar(calendar_json)
        loop == EntriesUpTo(calendar, plans, Len(calendar))
    IN  IF loop.ok THEN [ok |-> TRUE, _calendar |-> SetEndDates(loop.entries)]
        ELSE [ok |-> FALSE, _calendar |-> loop.entries]

\* ------------------------------------------------------------------------
\* UsageEngine.reload_config, as one call
\* The class variables are a record cls: _influx_client, _priority, _plans
\* (plan name -> plan object), _calendar (the entries in dict order).
\* ------------------------------------------------------------------------
Store(f, k, v) == [x \in DOMAIN f \cup {k} |-> IF x = k THEN v ELSE f[x]]

\* The class variables as the class statement leaves them.
ClassDefaults ==
    [ _influx_client |-> None, _priority |-> <<>>, _plans |-> <<>>, _calendar |-> <<>> ]

\* The buckets the InfluxDB server reports.
Buckets == { "powerwall" }

\* _init_settings: [ok, cls] when it returns (ok) or raises.
_init_settings(cls, config) ==
    IF "settings" \notin DOMAIN config THEN [ok |-> FALSE, cls |-> cls]
    ELSE LET settings == config["settings"]
             c1 == [cls EXCEPT !._influx_client = "InfluxDBClient"]
             c2 == [c1 EXCEPT !._priority = DefaultPriority]
         IN  IF settings["bucket"] \notin Buckets THEN [ok |-> FALSE, cls |-> c1]
             ELSE IF PriorityRejected(settings) THEN [ok |-> FALSE, cls |-> c2]
             ELSE [ok |-> TRUE, cls |-> [c2 EXCEPT !._priority = InitPriority(settings)]]

\* The plan loop of reload_config over the first n plans, from the empty
\* dict: [ok, plans, made], made counting the agent instances constructed.
RECURSIVE PlansUpTo(_, _, _)
PlansUpTo(plans_json, n, made) ==
    IF n = 0 THEN [ok |-> TRUE, plans |-> <<>>, made |-> made]
    ELSE LET done == PlansUpTo(plans_json, n - 1, made)
             data == plans_json[n]
         IN  IF ~done.ok THEN done
             ELSE IF UsagePlanRaises(data) THEN [done EXCEPT !.ok = FALSE]
             ELSE [ ok |-> TRUE,
                    plans |-> Store(done.plans, data["name"],
                                    UsagePlan(data, done.made + 1)),
                    made |-> IF can_persist(data["agent"])
                             THEN done.made + 1 ELSE done.made ]

\* reload_config on the config file: [ok, cls, made] when it returns (ok) or
\* raises, the lock released either way.
ReloadConfig(cls, file, made) ==
    IF "unreadable" \in DOMAIN file THEN [ok |-> FALSE, cls |-> cls, made |-> made]
    ELSE LET st == _init_settings(cls, file) IN
    IF ~st.ok THEN [ok |-> FALSE, cls |-> st.cls, made |-> made]
    ELSE IF "plans" \notin DOMAIN file THEN [ok |-> FALSE, cls |-> st.cls, made |-> made]
    ELSE LET pl == PlansUpTo(file["plans"], Len(file["plans"]), made)
             c3 == [st.cls EXCEPT !._plans = pl.plans]
         IN
    IF ~pl.ok THEN [ok |-> FALSE, cls |-> c3, made |-> pl.made]
    ELSE IF "calendar" \notin DOMAIN file THEN [ok |-> FALSE, cls |-> c3, made |-> pl.made]
    ELSE LET cal == _load_calendar(file["calendar"], pl.plans)
         IN  [ ok |-> cal.ok,
               cls |-> [c3 EXCEPT !._calendar = cal._calendar],
               made |-> pl.made ]

\* ------------------------------------------------------------------------
\* The configuration documents loaded (SpecLoad)
\* ------------------------------------------------------------------------
MaxSeasons == 2     \* seasons of the plan whose seasons vary
MaxEntries == 3     \* entries of the calendar that varies

HHMM(h) == <<h, "HH:MM">>
Weekdays == <<0, 1, 2, 3, 4>>
Weekend == <<5, 6>>
PeakPeriods == << <<HHMM(14), "peak">>, <<HHMM(20), "offpeak">> >>
OffpeakPeriods == << <<HHMM(0), "offpeak">> >>
FlatPeriods == << <<HHMM(0), "flat">> >>

\* The schedules a season of the varying plan lists: complete ones and ones
\* that leave out days, periods or both.
ScheduleJsons ==
    { [schedule |-> "weekday", days |-> Weekdays, periods |-> PeakPeriods],
      [schedule |-> "weekend", days |-> Weekend, periods |-> OffpeakPeriods],
      [schedule |-> "weekday", days |-> <<0, 1, 2, 3>>],
      [schedule |-> "weekday", periods |-> FlatPeriods],
      [schedule |-> "weekend"] }

ScheduleLists == UNION { [1..n -> ScheduleJsons] : n \in 0..2 }

SeasonNames == <<"Summer", "Winter", "Spring", "Autumn">>

\* The "seasons" of the varying plan: season i is named SeasonNames[i] and
\* lists lists[i].
SeasonsJson(lists) == [i \in DOMAIN lists |-> <<SeasonNames[i], lists[i]>>]

PlanJson(name, agent, seasons_json) ==
    [name |-> name, agent |-> agent, report |-> <<"GRID_TO_HOME", "SELF_TOTAL">>,
     seasons |-> seasons_json]

\* Plan P: summer weekdays peak from 14:00 to 20:00 and offpeak otherwise,
\* weekends offpeak; in winter the weekdays become flat. Plan Q: flat.
PlanP ==
    PlanJson("P", "Simple",
        << <<"Summer", << [schedule |-> "weekday", days |-> Weekdays, periods |-> PeakPeriods],
                           [schedule |-> "weekend", days |-> Weekend,
                            periods |-> OffpeakPeriods] >> >>,
           <<"Winter", << [schedule |-> "weekday", periods |-> FlatPeriods] >> >> >>)
PlanQ ==
    PlanJson("Q", "Simple",
        << <<"All", << [schedule |-> "all", days |-> Weekdays \o Weekend,
                         periods |-> FlatPeriods] >> >> >>)

RawTariffs(tables) == [raw |-> TRUE, tables |-> tables]
TariffsOff == RawTariffs(<< <<"offpeak", << <<"GRID_TO_HOME", 10>> >> >> >>)
TariffsPeak ==
    RawTariffs(<< <<"peak", << <<"GRID_TO_HOME", 30>> >> >>,
                  <<"offpeak", << <<"GRID_TO_HOME", 10>>, <<"SUPPLY_CHARGE", 1>> >> >> >>)
TariffsFlat == RawTariffs(<< <<"flat", << <<"GRID_TO_HOME", 20>> >> >> >>)
TariffsBadLabel == RawTariffs(<< <<"offpeak", << <<"Grid to Home", 10>> >> >> >>)

\* The items a calendar of the json holds: complete ones and ones that leave
\* out fields.
CalendarItems ==
    { [plan |-> "P", season |-> "Summer", tariffs |-> TariffsOff],
      [plan |-> "P", season |-> "Summer", tariffs |-> TariffsPeak],
      [season |-> "Winter"],
      [tariffs |-> TariffsFlat],
      [plan |-> "Q", season |-> "All", tariffs |-> TariffsFlat],
      [plan |-> "Q"],
      [plan |-> "X"],
      [note |-> "as before"] }

\* The date strings of the calendar: three dates, one of them also written
\* with a utc offset.
DateStrs == { <<10, "">>, <<20, "">>, <<30, "">>, <<20, "+10:00">> }

Injective(f) == \A i, j \in DOMAIN f : i # j => f[i] # f[j]

\* The "calendar" of the json with these date strings and items, in this order.
CalendarJson(keys, items) == [i \in DOMAIN keys |-> <<keys[i], items[i]>>]

GoodSettings == [bucket |-> "powerwall"]

\* A document whose plan seasons vary (an empty calendar) and one whose
\* calendar varies (plans P and Q).
SeasonsDoc(lists) ==
    [settings |-> GoodSettings, plans |-> << PlanJson("P", "Simple", SeasonsJson(lists)) >>,
     calendar |-> <<>>]
CalendarDoc(keys, items) ==
    [settings |-> GoodSettings, plans |-> <<PlanP, PlanQ>>,
     calendar |-> CalendarJson(keys, items)]

\* Documents that fail in other places.
OtherDocs ==
    { [unreadable |-> TRUE],
      [plans |-> <<PlanP>>, calendar |-> <<>>],
      [settings |-> [bucket |-> "nosuch"], plans |-> <<PlanP>>, calendar |-> <<>>],
      [settings |-> GoodSettings, calendar |-> <<>>],
      [settings |-> GoodSettings, plans |-> <<PlanP>>],
      [settings |-> GoodSettings, plans |-> << PlanJson("P", "Unknown", <<>>) >>,
       calendar |-> <<>>],
      [settings |-> GoodSettings, calendar |-> <<>>,
       plans |-> << PlanJson("P", "Simple",
                      << <<"Summer", << [days |-> Weekend,
                                         periods |-> FlatPeriods] >> >> >>) >>],
      [settings |-> GoodSettings, calendar |-> <<>>,
       plans |-> << PlanJson("P", "Simple",
                      << <<"Summer", << [schedule |-> "weekend", days |-> Weekend,
                                         periods |-> <<>>] >> >> >>) >>],
      [settings |-> GoodSettings, plans |-> <<PlanP, PlanQ>>,
       calendar |-> << << <<10, "">>, [plan |-> "X", season |-> "Summer",
                                       tariffs |-> TariffsOff] >> >>],
      [settings |-> GoodSettings, plans |-> <<PlanP, PlanQ>>,
       calendar |-> << << <<10, "">>, [plan |-> "P", season |-> "Summer",
                                       tariffs |-> TariffsBadLabel] >> >>] }

\* The configuration in force before the load: plans P and Q, one entry.
BaseConfig ==
    [settings |-> GoodSettings, plans |-> <<PlanP, PlanQ>>,
     calendar |-> << << <<10, "">>,
                        [plan |-> "P", season |-> "Summer", tariffs |-> TariffsPeak] >> >>]

\* ------------------------------------------------------------------------
\* SpecLoad: one reload_config call on a document, over the configuration
\* loaded before (BaseConfig).
\* ------------------------------------------------------------------------
\* The first load of the process, of BaseConfig.
BaseLoaded == ReloadConfig(ClassDefaults, BaseConfig, 0)

ClassState == [ _influx_client |-> _influx_client, _priority |-> _priority,
                _plans |-> _plans, _calendar |-> _calendar ]

SetClassState(cls) ==
    /\ _influx_client' = cls._influx_client
    /\ _priority' = cls._priority
    /\ _plans' = cls._plans
    /\ _calendar' = cls._calendar

reload_config ==
    /\ outcome = "none"
    /\ LET r == ReloadConfig(ClassState, config_file, agents_made)
       IN  /\ SetClassState(r.cls)
           /\ agents_made' = r.made
           /\ outcome' = IF r.ok THEN "ok" ELSE "raised"
    /\ UNCHANGED <<engines, response, history, config_file, rangeVars, frame, threadVars>>

InitLoad ==
    /\ \/ \E n \in 1..MaxSeasons : \E lists \in [1..n -> ScheduleLists] :
            config_file = SeasonsDoc(lists)
       \/ \E n \in 0..MaxEntries :
            \E keys \in [1..n -> DateStrs], items \in [1..n -> CalendarItems] :
                Injective(keys) /\ config_file = CalendarDoc(keys, items)
       \/ config_file \in OtherDocs
    /\ BaseLoaded.ok
    /\ _influx_client = BaseLoaded.cls._influx_client
    /\ _priority = BaseLoaded.cls._priority
    /\ _plans = BaseLoaded.cls._plans
    /\ _calendar = BaseLoaded.cls._calendar
    /\ agents_made = BaseLoaded.made
    /\ outcome = "none"
    /\ history = <<>>
    /\ response = <<>>
    /\ engines = <<>>
    /\ NoThreads
    /\ NoRange
    /\ frame = <<>>

NextLoad == reload_config

SpecLoad == InitLoad /\ [][NextLoad]_vars

\* ------------------------------------------------------------------------
\* Properties of the configuration load (SpecLoad)
\* ------------------------------------------------------------------------
\* The last item of a list (a json list of schedules, a json calendar) that
\* satisfies Test: the one that decides what the dict holds for its key.
LastIndex(list, Test(_)) ==
    CHOOSE i \in DOMAIN list :
        Test(list[i]) /\ \A j \in DOMAIN list : Test(list[j]) => j <= i

\* The entry of the calendar that chronologically precedes entry e at once.
Preceding(calendar, e) ==
    CHOOSE p \in SeqRange(calendar) :
        /\ p.start_date < e.start_date
        /\ \A q \in SeqRange(calendar) :
              q.start_date < e.start_date => q.start_date <= p.start_date

\* The item of the json calendar that the entry starting at date comes from.
ItemFor(calendar_json, date) ==
    LET IsDate(kv) == datetime_fromisoformat(kv[1]) = date
    IN  calendar_json[LastIndex(calendar_json, IsDate)][2]

ScenarioC ==
    << << <<10, "">>, [plan |-> "P", season |-> "Summer", tariffs |-> TariffsOff] >>,
       << <<20, "">>, [season |-> "Winter"] >> >>

\* C5: in a loaded calendar, every entry but the chronologically first takes
\* each of plan, season and tariffs it omits from the entry chronologically
\* just before it, and each one it supplies from its own item; entry 1
\* {plan P, season Summer} then entry 2 {season Winter} gives entry 2 plan P,
\* season Winter.
C5_CalendarDiff ==
    (outcome = "ok" /\ "calendar" \in DOMAIN config_file) =>
        /\ \A e \in SeqRange(_calendar) :
              (\E q \in SeqRange(_calendar) : q.start_date < e.start_date) =>
                  LET item == ItemFor(config_file["calendar"], e.start_date)
                      prev == Preceding(_calendar, e)
                  IN  /\ e.plan = IF "plan" \in DOMAIN item THEN item["plan"] ELSE prev.plan
                      /\ e.season = IF "season" \in DOMAIN item THEN item["season"]
                                    ELSE prev.season
                      /\ e.tariffs = IF "tariffs" \in DOMAIN item
                                     THEN Sanitize(item["tariffs"]) ELSE prev.tariffs
        /\ config_file["calendar"] = ScenarioC =>
              /\ Len(_calendar) = 2
              /\ _calendar[2].plan = "P"
              /\ _calendar[2].season = "Winter"

C5_Witness ==
    /\ outcome = "ok"
    /\ "calendar" \in DOMAIN config_file
    /\ config_file["calendar"] = ScenarioC
    /\ Len(_calendar) = 2
    /\ _calendar[2].start_date = 20
    /\ _calendar[2].plan = "P"

\* The seasons of plan P as loaded, and the json they were built from.
LoadedSeasons == _plans["P"]._seasons
SeasonsJsonOfP == config_file["plans"][1]["seasons"]

\* C6: season N holds every schedule of season N-1 that it does not name,
\* unchanged; a schedule it names that season N-1 has takes "days" and
\* "periods" from season N-1's schedule of that name where its listing (the
\* last one, when the season lists the name twice) omits them, and from the
\* listing where it supplies them.
C6_SeasonDiff ==
    (outcome = "ok" /\ Len(config_file["plans"]) = 1) =>
        \A n \in 2 .. Len(LoadedSeasons) :
            LET season == LoadedSeasons[n][2]
                prev_season == LoadedSeasons[n - 1][2]
                schedules == SeasonsJsonOfP[n][2]
                named == { schedules[j]["schedule"] : j \in DOMAIN schedules }
            IN  \A name \in Keys(prev_season) :
                    /\ Has(season, name)
                    /\ IF name \notin named
                       THEN Get(season, name) = Get(prev_season, name)
                       ELSE LET Names(sj) == sj["schedule"] = name
                                listing == schedules[LastIndex(schedules, Names)]
                                got == Get(season, name)
                                old == Get(prev_season, name)
                            IN  /\ got.name = name
                                /\ got.days = IF "days" \in DOMAIN listing
                                              THEN SeqRange(listing["days"]) ELSE old.days
                                /\ IF "periods" \in DOMAIN listing
                                   THEN /\ Len(got.periods) = Len(listing["periods"])
                                        /\ \A i \in DOMAIN got.periods :
                                              /\ got.periods[i].tariff = listing["periods"][i][2]
                                              /\ got.periods[i].start = listing["periods"][i][1][1]
                                   ELSE got.periods = old.periods

\* Winter lists "weekday" with periods only and does not list "weekend".
C6_Witness ==
    /\ outcome = "ok"
    /\ Len(config_file["plans"]) = 1
    /\ Len(LoadedSeasons) >= 2
    /\ SeasonsJsonOfP[2][2] = << [schedule |-> "weekday", periods |-> FlatPeriods] >>
    /\ Has(LoadedSeasons[1][2], "weekend")
    /\ Has(LoadedSeasons[2][2], "weekend")
    /\ Get(LoadedSeasons[2][2], "weekday").days = SeqRange(Weekdays)
    /\ Get(LoadedSeasons[2][2], "weekday").periods[1].tariff = "flat"

\* C4: when reload_config raises, the class-level _plans and _calendar are
\* the values they held before the reload started.
C4_ReloadAtomic ==
    outcome = "raised" =>
        /\ _plans = BaseLoaded.cls._plans
        /\ _calendar = BaseLoaded.cls._calendar

\* ------------------------------------------------------------------------
\* UsageEngine._process_periodic_data (the calendar resolver)
\* ------------------------------------------------------------------------
\* season_start left as the loop holds it, whatever the entry's start.
SeasonStart_Keep(entry, season_start) == season_start

\* season_start once the loop has looked at the entry's start date.
SeasonStart(entry, season_start) ==
    IF season_start <= entry.start_date THEN entry.start_date ELSE season_start

\* season_end is the end of the entry, also when the range stops before it.
SeasonEnd_EntryEnd(entry, range_stop) ==
    IF entry.end_date # NoEndDate THEN entry.end_date ELSE range_stop

\* season_end for an entry that holds season_start: the end of the entry or
\* the end of the usage range, whichever is first.
SeasonEnd(entry, range_stop) ==
    IF entry.end_date # NoEndDate
    THEN IF range_stop > entry.end_date THEN entry.end_date ELSE range_stop
    ELSE range_stop

ApplyCall(i, season_start, season_end) ==
    [entry |-> i, season_start |-> season_start, season_end |-> season_end]

\* The loop over the calendar from its i-th entry on, with season_start as
\* the loop holds it; made is the list of _apply_calendar calls made so far,
\* each [entry (its place in the calendar), season_start, season_end].
RECURSIVE ProcessFrom(_, _, _, _, _)
ProcessFrom(calendar, i, season_start, range_stop, made) ==
    IF i > Len(calendar) THEN made
    ELSE LET entry == calendar[i]
             start == SeasonStart(entry, season_start)
         IN  IF entry.start_date >= range_stop THEN made
             ELSE IF start >= range_stop THEN made
             ELSE IF entry.end_date # NoEndDate /\ start >= entry.end_date
             THEN ProcessFrom(calendar, i + 1, start, range_stop, made)
             ELSE ProcessFrom(calendar, i + 1, SeasonEnd(entry, range_stop), range_stop,
                              Append(made, ApplyCall(i, start,
                                                     SeasonEnd(entry, range_stop))))

ResolveCalls(calendar, range_start, range_stop) ==
    ProcessFrom(calendar, 1, range_start, range_stop, <<>>)

\* ------------------------------------------------------------------------
\* UsageEngine._apply_calendar, _add_energy_reports and SimpleAgent.usage
\* ------------------------------------------------------------------------
\* The index is a timestamp in hours; day 0 is a Monday.
dayofweek(t) == (t \div SlotsPerDay) % 7
TimeOfDay(t) == t % SlotsPerDay

\* Series.between(left, right, inclusive="left") on the index.
Between(idx, left, right) == { t \in idx : left <= t /\ t < right }

\* between_time that also keeps the end time.
between_time_Both(idx, start_time, end_time) ==
    { t \in idx : IF start_time <= end_time
                  THEN start_time <= TimeOfDay(t) /\ TimeOfDay(t) <= end_time
                  ELSE start_time <= TimeOfDay(t) \/ TimeOfDay(t) <= end_time }

\* between_time(start_time, end_time, inclusive="left"): the rows from
\* start_time up to end_time, around midnight when start_time is the later.
between_time(idx, start_time, end_time) ==
    { t \in idx : IF start_time <= end_time
                  THEN start_time <= TimeOfDay(t) /\ TimeOfDay(t) < end_time
                  ELSE start_time <= TimeOfDay(t) \/ TimeOfDay(t) < end_time }

\* An index that is never taken for empty.
Empty_Never(idx) == FALSE

\* Series.empty of season_idx, day_idx and tariff_idx.
Empty(idx) == idx = {}

\* frame.columns; a row without a column's label holds NaN there.
Columns(fr) == UNION { DOMAIN fr[t] : t \in DOMAIN fr }

\* frame.loc[idx, label] = v
SetLoc(fr, idx, label, v) ==
    [t \in DOMAIN fr |-> IF t \in idx THEN SetCol(fr[t], label, v) ELSE fr[t]]

\* str * n in Python: the string n times over.
RECURSIVE Repeat(_, _)
Repeat(str_v, n) == IF n <= 0 THEN "" ELSE str_v \o Repeat(str_v, n - 1)

\* The cell is copied and the rate is not applied.
Product_NoRate(from, v, rate) == v

\* A cell of column from times a rate (an integer here): the Tariff column
\* holds strings, every other column numbers.
Product(from, v, rate) == IF from = Value("TARIFF") THEN Repeat(v, rate) ELSE v * rate

\* The product is written to every row of the frame.
CopyLoc_AllRows(fr, idx, label, from, rate) ==
    [t \in DOMAIN fr |->
        IF from \in DOMAIN fr[t]
        THEN SetCol(fr[t], label, Product(from, fr[t][from], rate))
        ELSE fr[t]]

\* frame.loc[idx, label] = frame.loc[idx, from] * rate
CopyLoc(fr, idx, label, from, rate) ==
    [t \in DOMAIN fr |->
        IF t \notin idx THEN fr[t]
        ELSE IF from \in DOMAIN fr[t]
        THEN SetCol(fr[t], label, Product(from, fr[t][from], rate))
        ELSE [k \in DOMAIN fr[t] \ {label} |-> fr[t][k]]]

\* The settings documents here give no "rename", "cost_unit" or "energy_unit".
_col_overrides == <<>>
_cost_unit == "$"
_energy_unit == "kWh"

value_with_override(member, override) ==
    IF Has(override, member) THEN Get(override, member) ELSE Value(member)

\* f"{tariff} {full_name} ({unit})"
FullName(tariff, name, unit) == tariff \o " " \o name \o " (" \o unit \o ")"

\* The name is registered anew each time, at the end.
Register_MoveToEnd(report_cols, name) ==
    Append(SelectSeq(report_cols, LAMBDA kv : kv[1] # name), <<name, "number">>)

Register(report_cols, name) ==
    IF Has(report_cols, name) THEN report_cols ELSE Put(report_cols, name, "number")

\* The state a request threads through its calls: ok (nothing raised), the
\* frame, the report columns, the agent invocations and the count of agent
\* instances constructed.
Raised(st) == [st EXCEPT !.ok = FALSE]

\* The loop of _add_energy_reports from the i-th report column on.
RECURSIVE AddReports(_, _, _, _, _)
AddReports(st, tariff, tariff_idx, cols, i) ==
    IF ~st.ok \/ i > Len(cols) THEN st
    ELSE IF cols[i] \in {"TIME", "TARIFF", "SUPPLY_CHARGE"}
    THEN AddReports(st, tariff, tariff_idx, cols, i + 1)
    ELSE LET name == FullName(tariff, value_with_override(cols[i], _col_overrides),
                             _energy_unit)
             reg == [st EXCEPT !.report_cols = Register(@, name)]
         IN  IF Value(cols[i]) \notin Columns(st.frame) THEN Raised(reg)
             ELSE AddReports([reg EXCEPT !.frame = CopyLoc(@, tariff_idx, name,
                                                          Value(cols[i]), 1)],
                             tariff, tariff_idx, cols, i + 1)

_add_energy_reports(st, tariff, tariff_idx, usage_plan) ==
    AddReports([st EXCEPT !.frame = SetLoc(@, tariff_idx, Value("TARIFF"), tariff)],
               tariff, tariff_idx, usage_plan.report_cols, 1)

\* SimpleAgent.usage: the loop over the rate table from its i-th rate on.
RECURSIVE SimpleAgentUsage(_, _, _, _, _)
SimpleAgentUsage(st, tariff, tariff_idx, rates, i) ==
    IF ~st.ok \/ i > Len(rates) THEN st
    ELSE LET energy_column == rates[i][1]
             rate == rates[i][2]
             name == FullName(tariff, value_with_override(energy_column, _col_overrides),
                             _cost_unit)
             reg == [st EXCEPT !.report_cols = Register(@, name)]
         IN  IF energy_column = "SUPPLY_CHARGE"
             THEN SimpleAgentUsage([reg EXCEPT !.frame = SetLoc(@, tariff_idx, name, rate)],
                                   tariff, tariff_idx, rates, i + 1)
             ELSE IF Value(energy_column) \notin Columns(st.frame) THEN Raised(reg)
             ELSE SimpleAgentUsage([reg EXCEPT !.frame = CopyLoc(@, tariff_idx, name,
                                                                Value(energy_column), rate)],
                                   tariff, tariff_idx, rates, i + 1)

\* UsagePlan.agent: the persistent instance when there is one, else an
\* instance constructed by this access (made counts the instances so far).
PlanAgent(usage_plan, made) ==
    IF usage_plan._agent # NoAgent THEN usage_plan._agent ELSE made + 1

\* tariff_idx of one period of a schedule, from the schedule's day_idx.
TariffIdx(day_idx, schedule, period) ==
    IF Len(schedule.periods) = 1 THEN day_idx
    ELSE between_time(day_idx, period.start, period.end)

\* The call usage_plan.agent.usage(...) of the period loop, after the energy
\* reports (rep): the agent instance is read first, then the rate table.
AgentCall(rep, entry, call, usage_plan, schedule, period, tariff_idx) ==
    LET agent == PlanAgent(usage_plan, rep.made)
        got == [rep EXCEPT !.made = IF agent > @ THEN agent ELSE @]
        called == [got EXCEPT !.invocations =
                     Append(@, [ agent |-> agent, plan |-> entry.plan,
                                 season |-> entry.season,
                                 season_start |-> call.season_start,
                                 season_end |-> call.season_end,
                                 schedule |-> schedule.name, period |-> period,
                                 tariff |-> period.tariff, tariff_idx |-> tariff_idx ])]
    IN  IF ~Has(entry.tariffs.tables, period.tariff) THEN Raised(got)
        ELSE SimpleAgentUsage(called, period.tariff, tariff_idx,
                              Get(entry.tariffs.tables, period.tariff), 1)

\* The body of the period loop once tariff_idx is known not to be empty.
ApplyPeriod(st, entry, call, usage_plan, schedule, period, tariff_idx) ==
    LET rep == _add_energy_reports(st, period.tariff, tariff_idx, usage_plan)
    IN  IF ~rep.ok THEN rep
        ELSE AgentCall(rep, entry, call, usage_plan, schedule, period, tariff_idx)

RECURSIVE ApplyPeriods(_, _, _, _, _, _, _)
ApplyPeriods(st, entry, call, usage_plan, schedule, day_idx, i) ==
    IF ~st.ok \/ i > Len(schedule.periods) THEN st
    ELSE LET period == schedule.periods[i]
             tariff_idx == TariffIdx(day_idx, schedule, period)
         IN  ApplyPeriods(IF Empty(tariff_idx) THEN st
                          ELSE ApplyPeriod(st, entry, call, usage_plan, schedule, period,
                                           tariff_idx),
                          entry, call, usage_plan, schedule, day_idx, i + 1)

DayIdx(season_idx, schedule) == { t \in season_idx : dayofweek(t) \in schedule.days }

RECURSIVE ApplySchedules(_, _, _, _, _, _, _)
ApplySchedules(st, entry, call, usage_plan, schedules, season_idx, i) ==
    IF ~st.ok \/ i > Len(schedules) THEN st
    ELSE LET day_idx == DayIdx(season_idx, schedules[i])
         IN  ApplySchedules(IF Empty(day_idx) THEN st
                            ELSE ApplyPeriods(st, entry, call, usage_plan, schedules[i],
                                              day_idx, 1),
                            entry, call, usage_plan, schedules, season_idx, i + 1)

SeasonIdx(fr, call) == Between(DOMAIN fr, call.season_start, call.season_end)

\* _apply_calendar(entry, season_start, season_end), the call being
\* [entry, season_start, season_end]; plans is self._plans.
ApplyCalendar(st, plans, entry, call) ==
    IF Empty(SeasonIdx(st.frame, call)) THEN st
    ELSE ApplySchedules(st, entry, call, plans[entry.plan],
                        DictValues(season_schedules(plans[entry.plan], entry.season)),
                        SeasonIdx(st.frame, call), 1)

\* The calls of the loop of _process_periodic_data one after another, until
\* one raises; applied counts the calls entered.
RECURSIVE ApplyCalls(_, _, _, _, _)
ApplyCalls(st, plans, calendar, resolved, i) ==
    IF ~st.ok \/ i > Len(resolved) THEN st
    ELSE ApplyCalls([ApplyCalendar(st, plans, calendar[resolved[i].entry], resolved[i])
                        EXCEPT !.applied = i],
                    plans, calendar, resolved, i + 1)

RequestState ==
    [ ok |-> TRUE, frame |-> frame, report_cols |-> _report_cols,
      invocations |-> invocations, made |-> agents_made, applied |-> 0 ]

_process_periodic_data ==
    /\ outcome = "none"
    /\ LET resolved == ResolveCalls(_calendar, _range_start, _range_stop)
           st == ApplyCalls(RequestState, _plans, _calendar, resolved, 1)
       IN  /\ calls' = SubSeq(resolved, 1, st.applied)
           /\ frame' = st.frame
           /\ _report_cols' = st.report_cols
           /\ invocations' = st.invocations
           /\ agents_made' = st.made
           /\ outcome' = IF st.ok THEN "ok" ELSE "raised"
    /\ UNCHANGED <<engines, response, history, config_file, classVars, _range_start, _range_stop, threadVars>>

\* ------------------------------------------------------------------------
\* UsageEngine._frame_to_json_tables
\* ------------------------------------------------------------------------
MsPerHour == 3600000

\* The index in ascending order (the frame is kept sorted by sort_index).
RECURSIVE Ascending(_)
Ascending(idx) ==
    IF idx = {} THEN <<>>
    ELSE LET first == CHOOSE t \in idx : \A u \in idx : t <= u
         IN  <<first>> \o Ascending(idx \ {first})

\* df: the frame cut to the report columns, in the order of the registry,
\* with the time in ms put in front; NaN becomes None.
TableRow(fr, t, names) ==
    << t * MsPerHour >> \o
    [k \in DOMAIN names |-> IF names[k] \in DOMAIN fr[t] THEN fr[t][names[k]] ELSE None]

\* The table of the frame cut to the columns cols (a dict name -> type).
JsonTable(fr, cols) ==
    LET names == [k \in DOMAIN cols |-> cols[k][1]]
        order == Ascending(DOMAIN fr)
    IN  [ type |-> "table", name |-> "usage",
          columns |-> << [text |-> Value("TIME"), type |-> "time"] >> \o
                      [k \in DOMAIN names |-> [text |-> names[k], type |-> cols[k][2]]],
          rows |-> [i \in DOMAIN order |-> TableRow(fr, order[i], names)] ]

\* The Tariff column of the frame is kept in the table.
FrameToJsonTables_KeepTariff(fr, report_cols) ==
    [ ok |-> TRUE,
      report_cols |-> Put(report_cols, Value("TIME"), "time"),
      table |-> JsonTable(fr, Append(report_cols, <<Value("TARIFF"), "string">>)) ]

\* [ok, report_cols, table]: the registry with the time column added and
\* the table, a KeyError when a registered column is not in the frame.
FrameToJsonTables(fr, report_cols) ==
    IF \E k \in DOMAIN report_cols : report_cols[k][1] \notin Columns(fr)
    THEN [ok |-> FALSE, report_cols |-> report_cols, table |-> <<>>]
    ELSE [ ok |-> TRUE,
           report_cols |-> Put(report_cols, Value("TIME"), "time"),
           table |-> JsonTable(fr, report_cols) ]

\* ------------------------------------------------------------------------
\* SpecResolve: the resolver on a loaded calendar and a reporting window
\* ------------------------------------------------------------------------
\* The times a window starts and ends at, around the calendar's dates.
WindowTimes == { 5, 10, 15, 20, 25, 30, 35 }

CompleteItem == [plan |-> "P", season |-> "Summer", tariffs |-> TariffsOff]

InitResolve ==
    /\ \E n \in 0..MaxEntries : \E keys \in [1..n -> DateStrs] :
          /\ Injective(keys)
          /\ config_file = CalendarDoc(keys, [i \in 1..n |-> CompleteItem])
    /\ LET loaded == ReloadConfig(ClassDefaults, config_file, 0) IN
          /\ loaded.ok
          /\ _influx_client = loaded.cls._influx_client
          /\ _priority = loaded.cls._priority
          /\ _plans = loaded.cls._plans
          /\ _calendar = loaded.cls._calendar
          /\ agents_made = loaded.made
    /\ _range_start \in WindowTimes
    /\ _range_stop \in WindowTimes
    /\ calls = <<>>
    /\ _report_cols = <<>>
    /\ invocations = <<>>
    /\ outcome = "none"
    /\ history = <<>>
    /\ response = <<>>
    /\ engines = <<>>
    /\ NoThreads
    /\ frame = <<>>

NextResolve == _process_periodic_data

SpecResolve == InitResolve /\ [][NextResolve]_vars

\* Instants, to state coverage with.
Instants == 0 .. 40

InCall(c, t) == c.season_start <= t /\ t < c.season_end

\* C1: the sub-ranges passed to _apply_calendar are non-empty half-open
\* intervals, pairwise disjoint, and together cover exactly the instants of
\* [windowStart, windowEnd) at or after the first entry's start.
C1_CalendarTiling ==
    outcome = "ok" =>
        /\ \A i \in DOMAIN calls : calls[i].season_start < calls[i].season_end
        /\ \A i, j \in DOMAIN calls :
              i # j => ~\E t \in Instants : InCall(calls[i], t) /\ InCall(calls[j], t)
        /\ \A t \in Instants :
              (\E i \in DOMAIN calls : InCall(calls[i], t))
                  <=> /\ _range_start <= t
                      /\ t < _range_stop
                      /\ Len(_calendar) > 0
                      /\ _calendar[1].start_date <= t

\* A window that starts before the calendar and spans two entries.
C1_Witness ==
    /\ outcome = "ok"
    /\ Len(calls) >= 2
    /\ _range_start < _calendar[1].start_date
    /\ calls[1].season_start = _calendar[1].start_date
    /\ calls[Len(calls)].season_end = _range_stop

\* ------------------------------------------------------------------------
\* UsageEngine._core_usage
\* ------------------------------------------------------------------------
\* The difference is kept as it is.
Clip0_Keep(x) == x

\* Series.clip(lower=0.0)
Clip0(x) == IF x < 0 THEN 0 ELSE x

\* AllocStep records the whole supply as allocated instead of the drop in residual.
AllocStep_AllocWholeSupply(row, last_residual, this_residual, supply) ==
    LET r1 == SetCol(row, Value(this_residual),
                     Clip0(row[Value(last_residual)] - row[Value(supply)]))
    IN  SetCol(r1, Value(SUPPLY_TO_DEMAND[supply]), r1[Value(supply)])

\* One pass of the priority loop body, for i-th supply.
AllocStep(row, last_residual, this_residual, supply) ==
    LET r1 == SetCol(row, Value(this_residual),
                     Clip0(row[Value(last_residual)] - row[Value(supply)]))
    IN  SetCol(r1, Value(SUPPLY_TO_DEMAND[supply]),
               r1[Value(last_residual)] - r1[Value(this_residual)])

RECURSIVE Waterfall(_, _, _, _)
Waterfall(row, priority, i, last_residual) ==
    IF i > Len(priority) THEN row
    ELSE Waterfall(AllocStep(row, last_residual, RESIDUALS[i], priority[i]),
                   priority, i + 1, RESIDUALS[i])

CoreUsageRow(row, priority) ==
    LET w == Waterfall(row, priority, 1, "HOME_DEMAND")
        g == SetCol(w, Value("GRID_CHARGING"),
                    w[Value("GRID_SUPPLY")] - w[Value("GRID_TO_HOME")])
        p == SetCol(g, Value("SELF_PW_NET_OF_GRID"),
                    g[Value("PW_TO_HOME")] - g[Value("GRID_CHARGING")])
        s == SetCol(p, Value("SELF_SOLAR_PLUS_RES"),
                    p[Value("SOLAR_TO_HOME")] + p[Value("RESIDUAL_DEMAND_FINAL")])
        t == SetCol(s, Value("SELF_TOTAL"),
                    s[Value("PW_TO_HOME")] + s[Value("SELF_SOLAR_PLUS_RES")])
    IN  SetCol(t, Value("TARIFF"), "None")

CoreDone(fr) == \A t \in DOMAIN fr : Value("TARIFF") \in DOMAIN fr[t]

\* A row as _get_influx_data delivers it.
InfluxRow(home, grid, pw, solar, export) ==
    [k \in { Value(m) : m \in INFLUX_TO_PANDAS } |->
        CASE k = Value("HOME_DEMAND") -> home
          [] k = Value("GRID_SUPPLY") -> grid
          [] k = Value("PW_SUPPLY") -> pw
          [] k = Value("SOLAR_SUPPLY") -> solar
          [] OTHER -> export]

_core_usage ==
    /\ ~CoreDone(frame)
    /\ frame' = [t \in DOMAIN frame |-> CoreUsageRow(frame[t], _priority)]
    /\ UNCHANGED <<engines, response, history, config_file, classVars, agents_made, outcome, rangeVars, threadVars>>

\* The settings were loaded (any accepted supply priority); the frame is one
\* row as _get_influx_data delivers it.
InitAlloc ==
    /\ \E home \in Demands, grid \in Supplies, pw \in Supplies, solar \in Supplies :
          frame = [t \in {0} |-> InfluxRow(home, grid, pw, solar, 0)]
    /\ \E settings \in { x \in SettingsDocs : ~PriorityRejected(x) } :
          /\ config_file = [settings |-> settings]
          /\ _priority = _init_settings(ClassDefaults, config_file).cls._priority
    /\ _influx_client = "InfluxDBClient"
    /\ _plans = <<>>
    /\ _calendar = <<>>
    /\ agents_made = 0
    /\ outcome = "none"
    /\ history = <<>>
    /\ response = <<>>
    /\ engines = <<>>
    /\ NoThreads
    /\ NoRange

NextAlloc == _core_usage

SpecAlloc == InitAlloc /\ [][NextAlloc]_vars

\* ------------------------------------------------------------------------
\* Properties of the supply allocation (SpecAlloc)
\* ------------------------------------------------------------------------
\* The residual a supply was allocated against: home demand for the first
\* supply of the priority order, the previous residual otherwise.
ResidualBefore(row, i) ==
    IF i = 1 THEN row[Value("HOME_DEMAND")] ELSE row[Value(RESIDUALS[i - 1])]

Allocated(row, supply) == row[Value(SUPPLY_TO_DEMAND[supply])]

Max(a, b) == IF a >= b THEN a ELSE b

\* C3: after _core_usage, in every row each allocated source-to-home amount is
\* >= 0, <= that row's supply and <= the residual demand before the source was
\* applied, and the three allocations plus the final residual equal home demand.
C3_AllocationMonotone ==
    CoreDone(frame) =>
        \A t \in DOMAIN frame :
            LET row == frame[t] IN
            /\ \A i \in DOMAIN _priority :
                  /\ Allocated(row, _priority[i]) >= 0
                  /\ Allocated(row, _priority[i]) <= row[Value(_priority[i])]
                  /\ Allocated(row, _priority[i]) <= ResidualBefore(row, i)
            /\ row[Value("GRID_TO_HOME")] + row[Value("PW_TO_HOME")]
                  + row[Value("SOLAR_TO_HOME")] + row[Value("RESIDUAL_DEMAND_FINAL")]
               = row[Value("HOME_DEMAND")]

ScenarioD(row) ==
    /\ row[Value("HOME_DEMAND")] = 10
    /\ row[Value("GRID_SUPPLY")] = 4
    /\ row[Value("PW_SUPPLY")] = 3
    /\ row[Value("SOLAR_SUPPLY")] = 2

\* C8: the waterfall: residual_{i+1} = max(residual_i - supply, 0) and
\* allocated = residual_i - residual_{i+1} for each source in priority order;
\* with priority grid, battery, solar, demand 10 and supplies 4, 3, 2 the
\* result is 4 (residual 6), 3 (residual 3), 2, and the final residual 1
\* stays in the frame.
C8_WaterfallResult ==
    CoreDone(frame) =>
        \A t \in DOMAIN frame :
            LET row == frame[t] IN
            /\ \A i \in DOMAIN _priority :
                  /\ row[Value(RESIDUALS[i])]
                        = Max(ResidualBefore(row, i) - row[Value(_priority[i])], 0)
                  /\ Allocated(row, _priority[i])
                        = ResidualBefore(row, i) - row[Value(RESIDUALS[i])]
            /\ (ScenarioD(row) /\ _priority = DefaultPriority) =>
                  /\ row[Value("GRID_TO_HOME")] = 4
                  /\ row[Value("RESIDUAL_DEMAND_1")] = 6
                  /\ row[Value("PW_TO_HOME")] = 3
                  /\ row[Value("RESIDUAL_DEMAND_2")] = 3
                  /\ row[Value("SOLAR_TO_HOME")] = 2
                  /\ row[Value("RESIDUAL_DEMAND_FINAL")] = 1

C8_Witness ==
    /\ CoreDone(frame)
    /\ _priority = DefaultPriority
    /\ \E t \in DOMAIN frame :
          ScenarioD(frame[t]) /\ frame[t][Value("RESIDUAL_DEMAND_FINAL")] = 1

\* ------------------------------------------------------------------------
\* SpecPeriods: _process_periodic_data on a frame of hourly rows, for a plan
\* whose weekday schedule has any "periods" mapping
\* ------------------------------------------------------------------------
MaxPeriods == 3     \* entries of the "periods" mapping that varies

\* The time strings of the mapping: three times, one of them written two ways.
TimeStrs == { HHMM(8), HHMM(14), HHMM(20), <<14, "HH:MM:SS">> }
PeriodTariffs == { "peak", "offpeak" }

PeriodsJson(keys, tariffs) == [i \in DOMAIN keys |-> <<keys[i], tariffs[i]>>]

\* Plan S: the weekday schedule has the given periods, weekends are offpeak.
PlanS(periods_json) ==
    PlanJson("S", "Simple",
        << <<"Summer", << [schedule |-> "weekday", days |-> Weekdays,
                           periods |-> periods_json],
                          [schedule |-> "weekend", days |-> Weekend,
                           periods |-> OffpeakPeriods] >> >> >>)

\* One calendar entry for plan S with a rate table for every tariff its
\* season names.
PeriodsDoc(periods_json) ==
    [settings |-> GoodSettings, plans |-> << PlanS(periods_json) >>,
     calendar |-> << << <<10, "">>,
                        [plan |-> "S", season |-> "Summer",
                         tariffs |-> IF \E i \in DOMAIN periods_json :
                                           periods_json[i][2] = "peak"
                                     THEN TariffsPeak ELSE TariffsOff] >> >>]

\* The windows asked for, [from, to) in hours: a Tuesday, Friday to Saturday
\* noon, Friday 14:00 to Saturday 14:00, a Saturday.
Windows == { <<24, 48>>, <<96, 132>>, <<110, 134>>, <<120, 144>> }

\* The frame _get_influx_data and _core_usage leave for the window: one row
\* an hour, each with the same readings.
HourlyFrame(range_start, range_stop, priority) ==
    [t \in range_start .. (range_stop - 1) |->
        CoreUsageRow(InfluxRow(2, 1, 0, 0, 0), priority)]

InitPeriods ==
    /\ \E n \in 1..MaxPeriods :
          \E keys \in [1..n -> TimeStrs], tariffs \in [1..n -> PeriodTariffs] :
              /\ Injective(keys)
              /\ config_file = PeriodsDoc(PeriodsJson(keys, tariffs))
    /\ LET loaded == ReloadConfig(ClassDefaults, config_file, 0) IN
          /\ loaded.ok
          /\ _influx_client = loaded.cls._influx_client
          /\ _priority = loaded.cls._priority
          /\ _plans = loaded.cls._plans
          /\ _calendar = loaded.cls._calendar
          /\ agents_made = loaded.made
    /\ \E w \in Windows :
          /\ _range_start = w[1]
          /\ _range_stop = w[2]
          /\ frame = HourlyFrame(w[1], w[2], _priority)
    /\ calls = <<>>
    /\ _report_cols = <<>>
    /\ invocations = <<>>
    /\ outcome = "none"
    /\ history = <<>>
    /\ response = <<>>
    /\ engines = <<>>
    /\ NoThreads

NextPeriods == _process_periodic_data

SpecPeriods == InitPeriods /\ [][NextPeriods]_vars

\* ------------------------------------------------------------------------
\* Properties of the tariff period masks (SpecPeriods)
\* ------------------------------------------------------------------------
\* The schedule an invocation was made for and the day_idx it was cut from.
ScheduleOf(inv) == Get(season_schedules(_plans[inv.plan], inv.season), inv.schedule)
DayIdxOf(inv) ==
    DayIdx(Between(DOMAIN frame, inv.season_start, inv.season_end), ScheduleOf(inv))

\* C2: for every schedule and every sub-range with rows on the schedule's
\* days, the masks of the schedule's periods are pairwise disjoint and their
\* union is the day-filtered mask.
C2_ScheduleTiling ==
    outcome = "ok" =>
        \A c \in DOMAIN calls :
            LET entry == _calendar[calls[c].entry]
                schedules == DictValues(season_schedules(_plans[entry.plan], entry.season))
            IN  \A k \in DOMAIN schedules :
                    LET day_idx == DayIdx(SeasonIdx(frame, calls[c]), schedules[k])
                        masks == { i \in DOMAIN invocations :
                                     /\ invocations[i].schedule = schedules[k].name
                                     /\ invocations[i].season_start = calls[c].season_start }
                    IN  /\ \A i, j \in masks :
                              i # j => invocations[i].tariff_idx
                                           \cap invocations[j].tariff_idx = {}
                        /\ UNION { invocations[i].tariff_idx : i \in masks } = day_idx

\* The times of day from start up to, not including, end, going forward
\* around midnight.
HalfOpen(start, end) ==
    { (start + k) % SlotsPerDay : k \in 0 .. (((end - start) % SlotsPerDay) - 1) }

\* Scenario B: weekdays peak from 14:00 to 20:00 and offpeak otherwise, the
\* window one Tuesday.
ScenarioB ==
    /\ config_file = PeriodsDoc(PeakPeriods)
    /\ _range_start = 24
    /\ _range_stop = 48

\* C7: the mask of a period of a schedule with several periods holds the
\* rows of the schedule's days whose time of day is in [start, end): a row at
\* the period's end is not in it, a row at its start is (when start and end
\* differ). In scenario B two periods are resolved, the 14:00 row is tagged
\* peak, the 20:00 row offpeak, and no row is in both masks.
C7_HalfOpenPeriods ==
    outcome = "ok" =>
        /\ \A i \in DOMAIN invocations :
              LET inv == invocations[i] IN
              Len(ScheduleOf(inv).periods) > 1 =>
                  /\ inv.tariff_idx =
                        { t \in DayIdxOf(inv) :
                            TimeOfDay(t) \in HalfOpen(inv.period.start, inv.period.end) }
                  /\ \A t \in DayIdxOf(inv) :
                        /\ TimeOfDay(t) = inv.period.end => t \notin inv.tariff_idx
                        /\ (TimeOfDay(t) = inv.period.start
                              /\ inv.period.start # inv.period.end) => t \in inv.tariff_idx
        /\ ScenarioB =>
              /\ Len(invocations) = 2
              /\ { invocations[i].tariff : i \in DOMAIN invocations } = {"peak", "offpeak"}
              /\ invocations[1].tariff_idx \cap invocations[2].tariff_idx = {}
              /\ \A t \in DOMAIN frame :
                    frame[t][Value("TARIFF")] =
                        IF TimeOfDay(t) \in 14 .. 19 THEN "peak" ELSE "offpeak"

\* Scenario B was served: the 14:00 row is peak and the 20:00 row offpeak.
C7_Witness ==
    /\ outcome = "ok"
    /\ ScenarioB
    /\ frame[38][Value("TARIFF")] = "peak"
    /\ frame[44][Value("TARIFF")] = "offpeak"

\* ------------------------------------------------------------------------
\* Spec: the request threads of the server (server.py, one thread a request)
\* and reload_config step by step under UsageEngine._lock
\* ------------------------------------------------------------------------
NumThreads == 2         \* request threads alive at a time
MaxAgentsMade == 4      \* no reload is asked for once this many agents were made

Threads == 1 .. NumThreads

\* What usage.json holds over time: a good configuration, one whose calendar
\* names a plan that is not defined, and a file that does not parse.
BadCalendarConfig ==
    [settings |-> GoodSettings, plans |-> <<PlanP, PlanQ>>,
     calendar |-> << << <<10, "">>, [plan |-> "X", season |-> "Summer",
                                     tariffs |-> TariffsOff] >> >>]
ServedDocs == { BaseConfig, BadCalendarConfig, [unreadable |-> TRUE] }

NoConfig == [unread |-> TRUE]

\* A thread is at: "idle" (no request), "acquire" (at "with cls._lock"),
\* "settings", "plans", "calendar" (in the body of reload_config, before
\* that step), "usage" (UsageEngine() returned); via is the handler it serves.
At(t, where, via) == [pc EXCEPT ![t] = [at |-> where, via |-> via]]
InBody(t) == pc[t].at \in { "settings", "plans", "calendar" }

\* The lock is taken whether or not it is held.
LockFree_Ignored(lock) == TRUE

LockFree(lock) == lock = NoThread

\* usage.json is edited.
write_config ==
    /\ config_file' \in ServedDocs \ { config_file }
    /\ UNCHANGED <<engines, response, history, classVars, agents_made, outcome, rangeVars, frame, threadVars>>

\* do_GET on /usage_engine: calls UsageEngine.reload_config().
do_GET(t) ==
    /\ pc[t].at = "idle"
    /\ agents_made + 2 <= MaxAgentsMade
    /\ pc' = At(t, "acquire", "GET")
    /\ UNCHANGED <<engines, response, history, config_file, classVars, agents_made, outcome, rangeVars, frame,
                   _lock, config_read>>

\* do_POST on /usage_engine/query: UsageEngine() calls reload_config() when
\* no influx client was made yet; the test is made outside the lock.
do_POST(t) ==
    /\ pc[t].at = "idle"
    /\ IF _influx_client = None
       THEN agents_made + 2 <= MaxAgentsMade /\ pc' = At(t, "acquire", "POST")
       ELSE pc' = At(t, "usage", "POST")
    /\ UNCHANGED <<engines, response, history, config_file, classVars, agents_made, outcome, rangeVars, frame,
                   _lock, config_read>>

\* with cls._lock: ... config = simplejson.load(fp)
acquire(t) ==
    /\ pc[t].at = "acquire"
    /\ LockFree(_lock)
    /\ _lock' = t
    /\ config_read' = [config_read EXCEPT ![t] = config_file]
    /\ pc' = At(t, "settings", pc[t].via)
    /\ UNCHANGED <<engines, response, history, config_file, classVars, agents_made, outcome, rangeVars, frame>>

\* An exception leaves reload_config with the lock still held.
Raise_KeepLock(t) ==
    /\ UNCHANGED _lock
    /\ config_read' = [config_read EXCEPT ![t] = NoConfig]
    /\ pc' = At(t, "idle", "none")
    /\ outcome' = "raised"

\* An exception leaves reload_config: the lock is released and the handler
\* reports the error.
Raise(t) ==
    /\ _lock' = NoThread
    /\ config_read' = [config_read EXCEPT ![t] = NoConfig]
    /\ pc' = At(t, "idle", "none")
    /\ outcome' = "raised"

\* The next step of the body, the lock kept.
Step(t, where) ==
    /\ pc' = At(t, where, pc[t].via)
    /\ UNCHANGED <<_lock, config_read, outcome>>

\* reload_config returns: to do_GET, or into UsageEngine() and on to usage().
Return(t) ==
    /\ _lock' = NoThread
    /\ config_read' = [config_read EXCEPT ![t] = NoConfig]
    /\ IF pc[t].via = "GET"
       THEN pc' = At(t, "idle", "none") /\ outcome' = "ok"
       ELSE pc' = At(t, "usage", "POST") /\ UNCHANGED outcome

\* cls._init_settings(config)
load_settings(t) ==
    /\ pc[t].at = "settings"
    /\ IF "unreadable" \in DOMAIN config_read[t]
       THEN Raise(t) /\ UNCHANGED classVars
       ELSE \E st \in { _init_settings(ClassState, config_read[t]) } :
                /\ SetClassState(st.cls)
                /\ IF st.ok THEN Step(t, "plans") ELSE Raise(t)
    /\ UNCHANGED <<engines, response, history, config_file, agents_made, rangeVars, frame>>

\* cls._plans = {} and the loop over config["plans"]
load_plans(t) ==
    /\ pc[t].at = "plans"
    /\ IF "plans" \notin DOMAIN config_read[t]
       THEN Raise(t) /\ UNCHANGED <<_plans, agents_made>>
       ELSE \E pl \in { PlansUpTo(config_read[t]["plans"], Len(config_read[t]["plans"]),
                                  agents_made) } :
                /\ _plans' = pl.plans
                /\ agents_made' = pl.made
                /\ IF pl.ok THEN Step(t, "calendar") ELSE Raise(t)
    /\ UNCHANGED <<engines, response, history, config_file, _influx_client, _priority, _calendar, rangeVars, frame>>

\* cls._load_calendar(config["calendar"])
load_calendar(t) ==
    /\ pc[t].at = "calendar"
    /\ IF "calendar" \notin DOMAIN config_read[t]
       THEN Raise(t) /\ UNCHANGED _calendar
       ELSE \E cal \in { _load_calendar(config_read[t]["calendar"], _plans) } :
                /\ _calendar' = cal._calendar
                /\ IF cal.ok THEN Return(t) ELSE Raise(t)
    /\ UNCHANGED <<engines, response, history, config_file, _influx_client, _priority, _plans, agents_made,
                   rangeVars, frame>>

\* do_POST gets the result of usage() and answers; what usage() does with
\* its frame is followed in SpecAlloc and SpecPeriods.
usage_return(t) ==
    /\ pc[t].at = "usage"
    /\ pc' = At(t, "idle", "none")
    /\ outcome' = "ok"
    /\ UNCHANGED <<engines, response, history, config_file, classVars, agents_made, rangeVars, frame, _lock,
                   config_read>>

\* The server has started: nothing is loaded, no request is being served.
Init ==
    /\ config_file \in ServedDocs
    /\ _influx_client = ClassDefaults._influx_client
    /\ _priority = ClassDefaults._priority
    /\ _plans = ClassDefaults._plans
    /\ _calendar = ClassDefaults._calendar
    /\ agents_made = 0
    /\ outcome = "none"
    /\ history = <<>>
    /\ response = <<>>
    /\ engines = <<>>
    /\ NoRange
    /\ frame = <<>>
    /\ _lock = NoThread
    /\ pc = [t \in Threads |-> [at |-> "idle", via |-> "none"]]
    /\ config_read = [t \in Threads |-> NoConfig]

Next ==
    \/ write_config
    \/ \E t \in Threads : do_GET(t)
    \/ \E t \in Threads : do_POST(t)
    \/ \E t \in Threads : acquire(t)
    \/ \E t \in Threads : load_settings(t)
    \/ \E t \in Threads : load_plans(t)
    \/ \E t \in Threads : load_calendar(t)
    \/ \E t \in Threads : usage_return(t)

Spec == Init /\ [][Next]_vars

\* ------------------------------------------------------------------------
\* Properties of the reload lock (Spec)
\* ------------------------------------------------------------------------
OneInBody ==
    /\ \A t, u \in Threads : (InBody(t) /\ InBody(u)) => t = u
    /\ \A t \in Threads : InBody(t) => _lock = t

\* A step that writes the class-level configuration is a step of the one
\* thread that is in the body of reload_config, holding the lock.
WritesUnderLock ==
    classVars' # classVars =>
        \E t \in Threads :
            /\ InBody(t)
            /\ _lock = t
            /\ pc'[t] # pc[t]
            /\ \A u \in Threads \ {t} : ~InBody(u) /\ pc'[u] = pc[u]

\* C9: at most one thread at a time is in the body of reload_config, whether
\* it came from do_GET or from UsageEngine(), and every write to the
\* class-level configuration is made by that thread while it holds the lock.
C9_ReloadExclusion == []OneInBody /\ [][WritesUnderLock]_vars

\* A reload started by UsageEngine() is rebuilding the plans while another
\* thread waits for the lock.
C9_Witness ==
    \E t, u \in Threads :
        /\ t # u
        /\ pc[t] = [at |-> "plans", via |-> "POST"]
        /\ pc[u].at = "acquire"
        /\ _lock = t

\* ------------------------------------------------------------------------
\* SpecAgent: the handlers of the server one after another, each run to its
\* end, for a plan of either agent class
\* ------------------------------------------------------------------------
MaxHistory == 3     \* handlers followed

\* Plan S of scenario B with the given agent class, and its document.
AgentPlan(agent) == [PlanS(PeakPeriods) EXCEPT !.agent = agent]
AgentDoc(agent) == [PeriodsDoc(PeakPeriods) EXCEPT !.plans = << AgentPlan(agent) >>]

Served(op, ok, made) == [op |-> op, ok |-> ok, invocations |-> made]

\* do_GET on /usage_engine, to its end.
GET_usage_engine ==
    /\ Len(history) < MaxHistory
    /\ LET r == ReloadConfig(ClassState, config_file, agents_made)
       IN  /\ SetClassState(r.cls)
           /\ agents_made' = r.made
           /\ outcome' = IF r.ok THEN "ok" ELSE "raised"
           /\ history' = Append(history, Served("GET", r.ok, <<>>))
    /\ UNCHANGED <<engines, response, config_file, rangeVars, frame, threadVars>>

\* do_POST on /usage_engine/query for the window w, to its end:
\* UsageEngine() (with the reload it makes when nothing was loaded), then
\* usage(): the range, the frame, _core_usage, _process_periodic_data and
\* _frame_to_json_tables.
POST_query(w) ==
    /\ Len(history) < MaxHistory
    /\ \E init \in { IF _influx_client = None
                     THEN ReloadConfig(ClassState, config_file, agents_made)
                     ELSE [ok |-> TRUE, cls |-> ClassState, made |-> agents_made] } :
       \E resolved \in { ResolveCalls(init.cls._calendar, w[1], w[2]) } :
       \E st \in { ApplyCalls([ ok |-> TRUE,
                                frame |-> HourlyFrame(w[1], w[2], init.cls._priority),
                                report_cols |-> <<>>, invocations |-> <<>>,
                                made |-> init.made, applied |-> 0 ],
                              init.cls._plans, init.cls._calendar, resolved, 1) } :
       \E json \in { FrameToJsonTables(st.frame, st.report_cols) } :
           /\ SetClassState(init.cls)
           /\ IF init.ok
              THEN /\ _range_start' = w[1]
                   /\ _range_stop' = w[2]
                   /\ calls' = SubSeq(resolved, 1, st.applied)
                   /\ frame' = st.frame
                   /\ _report_cols' = IF st.ok THEN json.report_cols ELSE st.report_cols
                   /\ invocations' = st.invocations
                   /\ agents_made' = st.made
                   /\ outcome' = IF st.ok /\ json.ok THEN "ok" ELSE "raised"
                   /\ response' = IF st.ok THEN json.table ELSE <<>>
                   /\ history' = Append(history, Served("POST", st.ok /\ json.ok,
                                                        st.invocations))
              ELSE /\ agents_made' = init.made
                   /\ outcome' = "raised"
                   /\ response' = <<>>
                   /\ history' = Append(history, Served("POST", FALSE, <<>>))
                   /\ UNCHANGED <<rangeVars, frame>>
    /\ UNCHANGED <<engines, config_file, threadVars>>

InitAgent ==
    /\ \E agent \in DOMAIN AgentClasses : config_file = AgentDoc(agent)
    /\ _influx_client = ClassDefaults._influx_client
    /\ _priority = ClassDefaults._priority
    /\ _plans = ClassDefaults._plans
    /\ _calendar = ClassDefaults._calendar
    /\ agents_made = 0
    /\ outcome = "none"
    /\ history = <<>>
    /\ response = <<>>
    /\ engines = <<>>
    /\ NoThreads
    /\ NoRange
    /\ frame = <<>>

NextAgent ==
    \/ GET_usage_engine
    \/ \E w \in Windows : POST_query(w)

SpecAgent == InitAgent /\ [][NextAgent]_vars

\* ------------------------------------------------------------------------
\* Properties of the agent instances (SpecAgent)
\* ------------------------------------------------------------------------
\* A reload was served after the i-th handler and before the j-th.
ReloadBetween(i, j) == \E k \in (i + 1) .. (j - 1) : history[k].op = "GET"

RateTables ==
    { <<>>,
      << <<"GRID_TO_HOME", 30>> >>,
      << <<"GRID_TO_HOME", 30>>, <<"SUPPLY_CHARGE", 1>> >>,
      << <<"SUPPLY_CHARGE", 1>> >>,
      << <<"TARIFF", 2>> >>,
      << <<"TIME", 2>> >>,
      << <<"SELF_TOTAL", 10>>, <<"GRID_TO_HOME", 30>> >> }

ReportLists ==
    { <<"GRID_TO_HOME", "SELF_TOTAL">>,
      <<"TARIFF", "GRID_TO_HOME", "TIME", "SUPPLY_CHARGE">> }

\* Plan Q (flat on every day) with a report list, from date 10, and
\* optionally a second entry from date 40 that changes only the rates.
FlatDoc(report, rates) ==
    [settings |-> GoodSettings, plans |-> << [PlanQ EXCEPT !.report = report] >>,
     calendar |-> << << <<10, "">>,
                        [plan |-> "Q", season |-> "All",
                         tariffs |-> RawTariffs(<< <<"flat", rates>> >>)] >> >>]
FlatDoc2(report, rates, later) ==
    [FlatDoc(report, rates) EXCEPT !.calendar =
        Append(@, << <<40, "">>, [tariffs |-> RawTariffs(<< <<"flat", later>> >>)] >>)]

\* Plan S of scenario B with rate tables for peak and offpeak.
PeakDoc(peak, offpeak) ==
    [settings |-> GoodSettings, plans |-> << PlanS(PeakPeriods) >>,
     calendar |-> << << <<10, "">>,
                        [plan |-> "S", season |-> "Summer",
                         tariffs |-> RawTariffs(<< <<"peak", peak>>,
                                                   <<"offpeak", offpeak>> >>)] >> >>]

\* The whole of a Tuesday, and a window that starts before the calendar.
RequestWindows == { <<24, 48>>, <<8, 14>> }

RECURSIVE Flatten(_)
Flatten(lists) ==
    IF Len(lists) = 0 THEN <<>> ELSE Head(lists) \o Flatten(Tail(lists))

\* The passes of the period loop that reach _add_energy_reports, in the
\* order the loops of _process_periodic_data and _apply_calendar make them.
WorkOfSchedule(c, entry, call, schedule, day_idx) ==
    SelectSeq([i \in DOMAIN schedule.periods |->
                  [ c |-> c, entry |-> entry, call |-> call, schedule |-> schedule,
                    period |-> schedule.periods[i],
                    tariff_idx |-> TariffIdx(day_idx, schedule, schedule.periods[i]) ]],
              LAMBDA item : ~Empty(item.tariff_idx))

WorkOfCall(fr, plans, calendar, resolved, c) ==
    LET call == resolved[c]
        entry == calendar[call.entry]
        schedules == DictValues(season_schedules(plans[entry.plan], entry.season))
    IN  Flatten([k \in DOMAIN schedules |->
                    WorkOfSchedule(c, entry, call, schedules[k],
                                   DayIdx(SeasonIdx(fr, call), schedules[k]))])

WorkFor(fr, plans, calendar, range_start, range_stop) ==
    LET resolved == ResolveCalls(calendar, range_start, range_stop)
    IN  Flatten([c \in DOMAIN resolved |-> WorkOfCall(fr, plans, calendar, resolved, c)])

RequestWork == WorkFor(frame, _plans, _calendar, _range_start, _range_stop)

\* The pass the request is in.
ThisItem == RequestWork[Len(invocations) + 1]

step_add_energy_reports ==
    /\ pc[1].at = "reports"
    /\ LET st == _add_energy_reports(RequestState, ThisItem.period.tariff,
                                     ThisItem.tariff_idx, _plans[ThisItem.entry.plan])
       IN  /\ frame' = st.frame
           /\ _report_cols' = st.report_cols
           /\ calls' = SubSeq(ResolveCalls(_calendar, _range_start, _range_stop),
                              1, ThisItem.c)
           /\ pc' = At(1, IF st.ok THEN "agent" ELSE "done", "POST")
           /\ outcome' = IF st.ok THEN outcome ELSE "raised"
    /\ UNCHANGED <<engines, response, history, config_file, classVars, agents_made, _range_start,
                   _range_stop, invocations, _lock, config_read>>

step_agent_usage ==
    /\ pc[1].at = "agent"
    /\ LET st == AgentCall(RequestState, ThisItem.entry, ThisItem.call,
                           _plans[ThisItem.entry.plan], ThisItem.schedule,
                           ThisItem.period, ThisItem.tariff_idx)
       IN  /\ frame' = st.frame
           /\ _report_cols' = st.report_cols
           /\ invocations' = st.invocations
           /\ agents_made' = st.made
           /\ pc' = At(1, IF ~st.ok THEN "done"
                          ELSE IF Len(st.invocations) < Len(RequestWork) THEN "reports"
                          ELSE "assemble", "POST")
           /\ outcome' = IF st.ok THEN outcome ELSE "raised"
    /\ UNCHANGED <<engines, response, history, config_file, classVars, _range_start, _range_stop,
                   calls, _lock, config_read>>

step_frame_to_json_tables ==
    /\ pc[1].at = "assemble"
    /\ LET json == FrameToJsonTables(frame, _report_cols)
       IN  /\ _report_cols' = json.report_cols
           /\ response' = json.table
           /\ outcome' = IF json.ok THEN "ok" ELSE "raised"
    /\ pc' = At(1, "done", "POST")
    /\ UNCHANGED <<engines, history, config_file, classVars, agents_made, _range_start, _range_stop,
                   calls, invocations, frame, _lock, config_read>>

\* usage() has set the range and the frame and run _core_usage.
InitRequest ==
    /\ \/ \E report \in ReportLists, rates \in RateTables :
            config_file = FlatDoc(report, rates)
       \/ \E report \in ReportLists, rates \in RateTables, later \in RateTables :
            config_file = FlatDoc2(report, rates, later)
       \/ \E peak \in RateTables, offpeak \in RateTables :
            config_file = PeakDoc(peak, offpeak)
    /\ LET loaded == ReloadConfig(ClassDefaults, config_file, 0) IN
          /\ loaded.ok
          /\ _influx_client = loaded.cls._influx_client
          /\ _priority = loaded.cls._priority
          /\ _plans = loaded.cls._plans
          /\ _calendar = loaded.cls._calendar
          /\ agents_made = loaded.made
    /\ \E w \in RequestWindows :
          /\ _range_start = w[1]
          /\ _range_stop = w[2]
          /\ frame = HourlyFrame(w[1], w[2], _priority)
    /\ calls = <<>>
    /\ _report_cols = <<>>
    /\ invocations = <<>>
    /\ outcome = "none"
    /\ history = <<>>
    /\ response = <<>>
    /\ engines = <<>>
    /\ _lock = NoThread
    /\ config_read = << NoConfig >>
    /\ pc = << [at |-> IF Len(RequestWork) > 0 THEN "reports" ELSE "assemble",
                via |-> "POST"] >>

NextRequest ==
    \/ step_add_energy_reports
    \/ step_agent_usage
    \/ step_frame_to_json_tables

SpecRequest == InitRequest /\ [][NextRequest]_vars

\* ------------------------------------------------------------------------
\* Properties of the agent call and of the table (SpecRequest)
\* ------------------------------------------------------------------------
\* C11: a call of SimpleAgent.usage leaves every row outside tariff_idx as it
\* was: no value of a column the row had is changed, and the row gets no
\* value (stays missing) in any column the call adds.
C11_WritesWithinMask ==
    [][ pc[1].at = "agent" =>
            /\ DOMAIN frame' = DOMAIN frame
            /\ \A t \in DOMAIN frame \ ThisItem.tariff_idx :
                  /\ \A col \in DOMAIN frame[t] :
                        col \in DOMAIN frame'[t] /\ frame'[t][col] = frame[t][col]
                  /\ DOMAIN frame'[t] \subseteq DOMAIN frame[t] ]_vars

\* An agent call has written a cost column with rows left outside its mask.
C11_Witness ==
    /\ Len(invocations) > 0
    /\ outcome # "raised"
    /\ LET last == invocations[Len(invocations)]
           name == FullName(last.tariff, Value("GRID_TO_HOME"), _cost_unit)
       IN  /\ \E t \in last.tariff_idx : name \in DOMAIN frame[t]
           /\ \E t \in DOMAIN frame \ last.tariff_idx : name \notin DOMAIN frame[t]

\* The special semantic columns.
SpecialColumns == {"TIME", "TARIFF", "SUPPLY_CHARGE"}

\* The agent calls of the request that have returned.
Returned ==
    { i \in DOMAIN invocations : i < Len(invocations) \/ outcome # "raised" }

\* Scenario A: one all-day flat period with rate table {GRID_TO_HOME: 0.30}
\* (30 hundredths) over one day of hourly rows of a constant 1 kWh
\* grid-to-home.
ScenarioA ==
    /\ DOMAIN frame = 24..47
    /\ \E report \in ReportLists :
          config_file = FlatDoc(report, << <<"GRID_TO_HOME", 30>> >>)
    /\ \A t \in DOMAIN frame : frame[t][Value("GRID_TO_HOME")] = 1

\* The table has the column and every row holds v in it.
ColumnHolds(table, name, v) ==
    \E k \in DOMAIN table.columns :
        /\ table.columns[k].text = name
        /\ \A r \in DOMAIN table.rows : table.rows[r][k] = v

\* C12: for every agent call that returned and every rate (C, r) of the
\* period's rate table with C not a special column, the column
\* '<tariff> <display name of C> (<cost unit>)' is registered and holds, in
\* every row of the period's mask, r times the row's value of C; in scenario
\* A the table has 'flat Grid to Home ($)' with 30 (hundredths) in every row.
C12_LinearRates ==
    /\ \A i \in Returned :
          LET item == RequestWork[i]
              rates == Get(item.entry.tariffs.tables, item.period.tariff)
          IN  \A k \in DOMAIN rates :
                 rates[k][1] \notin SpecialColumns =>
                    LET name == FullName(item.period.tariff, Value(rates[k][1]), "$")
                    IN  /\ Has(_report_cols, name)
                        /\ \A t \in item.tariff_idx :
                              /\ name \in DOMAIN frame[t]
                              /\ frame[t][name] = rates[k][2] * frame[t][Value(rates[k][1])]
    /\ (ScenarioA /\ pc[1].at = "done") =>
          /\ outcome = "ok"
          /\ ColumnHolds(response, "flat Grid to Home ($)", 30)

\* Scenario A has been served and its table has rows.
C12_Witness ==
    /\ ScenarioA
    /\ pc[1].at = "done"
    /\ outcome = "ok"
    /\ Len(response.rows) > 0
    /\ \E i \in Returned : RequestWork[i].period.tariff = "flat"

\* The tariff names of the plans.
TariffNames == {"flat", "peak", "offpeak"}

\* C13: for every agent call and every rate of the period's table on one of
\* TIME, TARIFF, SUPPLY_CHARGE, no row of the mask holds, in the cost column
\* of that rate, the rate times the row's value of the special column; and
\* no energy report column of a special column is registered or written.
C13_SpecialColumns ==
    /\ \A i \in DOMAIN invocations :
          LET item == RequestWork[i]
              rates == Get(item.entry.tariffs.tables, item.period.tariff)
          IN  \A k \in DOMAIN rates :
                 rates[k][1] \in SpecialColumns =>
                    LET column == Value(rates[k][1])
                        name == FullName(item.period.tariff, column, _cost_unit)
                    IN  \A t \in item.tariff_idx :
                            ~ /\ column \in DOMAIN frame[t]
                              /\ name \in DOMAIN frame[t]
                              /\ frame[t][name] = Product(column, frame[t][column], rates[k][2])
    /\ \A tariff \in TariffNames, special \in SpecialColumns :
          LET name == FullName(tariff, Value(special), _energy_unit)
          IN  /\ ~Has(_report_cols, name)
              /\ \A t \in DOMAIN frame : name \notin DOMAIN frame[t]

\* ------------------------------------------------------------------------
\* Properties of the calendar validation (SpecLoad)
\* ------------------------------------------------------------------------
\* The dates of the json calendar.
JsonDates(calendar_json) ==
    { datetime_fromisoformat(calendar_json[i][1]) : i \in DOMAIN calendar_json }

Latest(dates) == CHOOSE d \in dates : \A e \in dates : e <= d

\* The value of a field for the entry at date once inheritance is applied:
\* <<v>>, or <<>> when neither the item nor any earlier one supplies it.
RECURSIVE Inherited(_, _, _)
Inherited(calendar_json, date, key) ==
    LET item == ItemFor(calendar_json, date)
        earlier == { d \in JsonDates(calendar_json) : d < date }
    IN  IF key \in DOMAIN item THEN << item[key] >>
        ELSE IF earlier = {} THEN <<>>
        ELSE Inherited(calendar_json, Latest(earlier), key)

\* The tariff names of the schedule periods of a plan's season.
SeasonTariffs(usage_plan, season) ==
    UNION { { schedule.periods[i].tariff : i \in DOMAIN schedule.periods } :
            schedule \in SeqRange(DictValues(season_schedules(usage_plan, season))) }

\* The entry at date names a plan, a season or a tariff that does not exist.
Unresolved(calendar_json, date, plans) ==
    LET plan == Inherited(calendar_json, date, "plan")
        season == Inherited(calendar_json, date, "season")
        tariffs == Inherited(calendar_json, date, "tariffs")
    IN  /\ Len(plan) = 1
        /\ \/ plan[1] \notin DOMAIN plans
           \/ /\ Len(season) = 1
              /\ \/ ~Has(plans[plan[1]]._seasons, season[1])
                 \/ /\ Len(tariffs) = 1
                    /\ \E tariff \in Keys(tariffs[1].tables) :
                          tariff \notin SeasonTariffs(plans[plan[1]], season[1])

\* The document has plans P and Q and a calendar.
HasCatalog ==
    /\ {"settings", "plans", "calendar"} \subseteq DOMAIN config_file
    /\ config_file["plans"] = <<PlanP, PlanQ>>

\* C14: a load whose calendar has an entry that, after inheritance, names a
\* plan not in _plans, a season the plan does not define or a rate-table
\* tariff that no schedule period of the plan's season has, raises; in every
\* loaded calendar each entry's plan and season resolve and each key of its
\* tariffs is a tariff of a period of that plan's season.
C14_ReferenceValidation ==
    /\ (outcome # "none" /\ HasCatalog) =>
          ((\E date \in JsonDates(config_file["calendar"]) :
                Unresolved(config_file["calendar"], date, _plans))
             => outcome = "raised")
    /\ outcome = "ok" =>
          \A e \in SeqRange(_calendar) :
              /\ e.plan \in DOMAIN _plans
              /\ Has(_plans[e.plan]._seasons, e.season)
              /\ Keys(e.tariffs.tables) \subseteq SeasonTariffs(_plans[e.plan], e.season)

\* A load was refused for a reference that only a later entry, by
\* inheritance, fails to resolve.
C14_Witness ==
    /\ outcome = "raised"
    /\ HasCatalog
    /\ LET calendar_json == config_file["calendar"]
           dates == JsonDates(calendar_json)
       IN  \E date \in dates :
              /\ Unresolved(calendar_json, date, _plans)
              /\ "tariffs" \notin DOMAIN ItemFor(calendar_json, date)
              /\ \E d \in dates : d < date
              /\ \A d \in dates : d < date => ~Unresolved(calendar_json, d, _plans)
              /\ \A d \in dates : Len(Inherited(calendar_json, d, "tariffs")) = 1

Earliest(dates) == CHOOSE d \in dates : \A e \in dates : d <= e

CalendarFields == {"plan", "season", "tariffs"}

\* A rate table of the item has a label that is not a PDColName name.
BadLabel(item) ==
    /\ "tariffs" \in DOMAIN item
    /\ \E i \in DOMAIN item["tariffs"].tables :
          \E j \in DOMAIN item["tariffs"].tables[i][2] :
              from_str(item["tariffs"].tables[i][2][j][1]) = None

\* C15: a load whose chronologically first calendar item leaves out plan,
\* season or tariffs, or supplies one that is invalid, raises; when the first
\* item is complete and every entry resolves after inheritance, the load
\* succeeds whatever subset of the three the later items leave out.
C15_FirstEntryComplete ==
    (outcome # "none" /\ HasCatalog /\ Len(config_file["calendar"]) > 0) =>
        LET calendar_json == config_file["calendar"]
            dates == JsonDates(calendar_json)
            first == ItemFor(calendar_json, Earliest(dates))
            complete == CalendarFields \subseteq DOMAIN first
            valid == \A d \in dates : /\ ~Unresolved(calendar_json, d, _plans)
                                      /\ ~BadLabel(ItemFor(calendar_json, d))
        IN  /\ ~complete => outcome = "raised"
            /\ (Unresolved(calendar_json, Earliest(dates), _plans) \/ BadLabel(first))
                  => outcome = "raised"
            /\ (complete /\ valid) => outcome = "ok"

\* A calendar was loaded whose later items leave out all three fields, or
\* two of them.
C15_Witness ==
    /\ outcome = "ok"
    /\ HasCatalog
    /\ Len(_calendar) = 3
    /\ LET calendar_json == config_file["calendar"]
       IN  /\ DOMAIN ItemFor(calendar_json, _calendar[2].start_date) \cap CalendarFields = {}
           /\ Cardinality(DOMAIN ItemFor(calendar_json, _calendar[3].start_date)
                             \cap CalendarFields) = 1

\* ------------------------------------------------------------------------
\* SpecSettings: the first load of the process on a document whose settings
\* vary, then _core_usage of a request on the class state the load left.
\* ------------------------------------------------------------------------
SettingsDoc(settings) ==
    [settings |-> settings, plans |-> <<PlanQ>>, calendar |-> <<>>]

\* cls._bucket names a bucket of the server, so that _get_influx_data
\* delivers a frame (a rejected bucket leaves cls._bucket = "").
BucketSet ==
    /\ "settings" \in DOMAIN config_file
    /\ config_file["settings"]["bucket"] \in Buckets

request_core_usage ==
    /\ outcome # "none"
    /\ BucketSet
    /\ _core_usage

InitSettings ==
    /\ \E settings \in SettingsDocs \cup { [bucket |-> "nosuch"] } :
          config_file = SettingsDoc(settings)
    /\ _influx_client = ClassDefaults._influx_client
    /\ _priority = ClassDefaults._priority
    /\ _plans = ClassDefaults._plans
    /\ _calendar = ClassDefaults._calendar
    /\ agents_made = 0
    /\ frame = [t \in {0} |-> InfluxRow(10, 4, 3, 2, 0)]
    /\ outcome = "none"
    /\ history = <<>>
    /\ response = <<>>
    /\ engines = <<>>
    /\ NoThreads
    /\ NoRange

NextSettings ==
    \/ reload_config
    \/ request_core_usage

SpecSettings == InitSettings /\ [][NextSettings]_vars

\* A list of exactly the three supply sources, each once.
IsPermutation(priority) ==
    /\ Len(priority) = 3
    /\ SeqRange(priority) = {"GRID_SUPPLY", "PW_SUPPLY", "SOLAR_SUPPLY"}

Registered ==
    LET cols == SelectSeq(_report_cols, LAMBDA kv : kv[1] # Value("TIME"))
    IN  [i \in DOMAIN cols |-> cols[i][1]]

\* The timestamp (in hours) of a row of the table.
RowTime(row) == row[1] \div MsPerHour

\* C17: the table's columns are the time column followed by the registered
\* report columns in the order of their registration, and no other column of
\* the frame; the table has one row for each row of the frame, in ascending
\* order of timestamp, holding the frame's values of those columns.
C17_ReportAssembly ==
    (pc[1].at = "done" /\ outcome = "ok") =>
        /\ Len(response.columns) = Len(Registered) + 1
        /\ response.columns[1].text = "_time"
        /\ \A i \in DOMAIN Registered : response.columns[i + 1].text = Registered[i]
        /\ \A k \in DOMAIN response.columns :
              response.columns[k].text \notin { Value(m) : m \in DOMAIN PDColName \ {"TIME"} }
        /\ Len(response.rows) = Cardinality(DOMAIN frame)
        /\ { response.rows[r][1] : r \in DOMAIN response.rows }
              = { t * MsPerHour : t \in DOMAIN frame }
        /\ \A r \in DOMAIN response.rows :
              /\ r > 1 => response.rows[r - 1][1] < response.rows[r][1]
              /\ Len(response.rows[r]) = Len(response.columns)
              /\ \A i \in DOMAIN Registered :
                    LET row == frame[RowTime(response.rows[r])]
                    IN  IF Registered[i] \in DOMAIN row
                        THEN response.rows[r][i + 1] = row[Registered[i]]
                        ELSE response.rows[r][i + 1] = None

\* A table of energy and cost columns with rows the calendar does not cover.
C17_Witness ==
    /\ pc[1].at = "done"
    /\ outcome = "ok"
    /\ Len(Registered) >= 3
    /\ Len(response.rows) > 1
    /\ \E r \in DOMAIN response.rows : response.rows[r][2] = None

IsPrefix(s, t) == Len(s) <= Len(t) /\ SubSeq(t, 1, Len(s)) = s

\* C18: the registry holds each name once; a step of the energy reports or
\* of the agent keeps every entry of the registry at its position (names
\* registered again add nothing), and keeps, in every column registered
\* before the step, the values of the rows outside the step's mask.
C18_IdempotentRegistration ==
    /\ [](\A i, j \in DOMAIN _report_cols :
              _report_cols[i][1] = _report_cols[j][1] => i = j)
    /\ [][ pc[1].at \in {"reports", "agent"} =>
              /\ IsPrefix(_report_cols, _report_cols')
              /\ \A name \in Keys(_report_cols) :
                    \A t \in DOMAIN frame \ ThisItem.tariff_idx :
                        /\ name \in DOMAIN frame[t] <=> name \in DOMAIN frame'[t]
                        /\ name \in DOMAIN frame[t] => frame'[t][name] = frame[t][name] ]_vars

\* The flat tariff recurred in a second calendar sub-range: its columns were
\* registered again and the first sub-range's rows hold their values.
C18_Witness ==
    /\ Len(invocations) = 2
    /\ outcome # "raised"
    /\ invocations[1].tariff = invocations[2].tariff
    /\ invocations[1].tariff_idx \cap invocations[2].tariff_idx = {}
    /\ LET name == FullName(invocations[1].tariff, Value("GRID_TO_HOME"), _cost_unit)
       IN  /\ Has(_report_cols, name)
           /\ \A t \in invocations[1].tariff_idx \cup invocations[2].tariff_idx :
                 name \in DOMAIN frame[t]

\* ------------------------------------------------------------------------
\* SpecIsolation: concurrent usage() calls, each on its own UsageEngine
\* instance, interleaved step by step. The frames and the report column
\* dicts are objects: frame and _report_cols hold the objects made so far
\* and an instance's _frame and _report_cols refer to them by position;
\* invocations and response are kept per thread.
\* ------------------------------------------------------------------------
NoObject == 0    \* the attribute is not assigned yet

\* The one object made first is returned again.
NewObject_Shared(heap) == 1

\* The object a constructor call ({} in usage, the query result in
\* _get_influx_data) returns: a new one.
NewObject(heap) == Len(heap) + 1

\* The objects after ref was bound to a value.
Bind(heap, ref, v) ==
    IF ref > Len(heap) THEN Append(heap, v) ELSE [heap EXCEPT ![ref] = v]

Engine(t) == engines[t]
FrameOf(t) == frame[Engine(t)._frame]
ReportColsOf(t) == _report_cols[Engine(t)._report_cols]

EngineState(t) ==
    [ ok |-> TRUE, frame |-> FrameOf(t), report_cols |-> ReportColsOf(t),
      invocations |-> invocations[t], made |-> agents_made, applied |-> 0 ]

EngineWork(t) ==
    WorkFor(FrameOf(t), _plans, _calendar, Engine(t)._range_start, Engine(t)._range_stop)

EngineItem(t) == EngineWork(t)[Len(invocations[t]) + 1]

\* The window a thread's request asks for: Tuesday 12:00 to 20:00, or a
\* window that starts before the calendar.
WindowOf(t) == IF t % 2 = 1 THEN <<36, 44>> ELSE <<8, 14>>

\* self._report_cols = {} and the range of the request
usage_begin(t) ==
    /\ pc[t].at = "usage"
    /\ engines' = [engines EXCEPT ![t]._report_cols = NewObject(_report_cols),
                                  ![t]._range_start = WindowOf(t)[1],
                                  ![t]._range_stop = WindowOf(t)[2]]
    /\ _report_cols' = Bind(_report_cols, NewObject(_report_cols), <<>>)
    /\ pc' = At(t, "influx", "POST")
    /\ UNCHANGED <<response, history, config_file, classVars, agents_made, outcome,
                   _range_start, _range_stop, calls, invocations, frame, _lock, config_read>>

\* self._get_influx_data() and self._core_usage()
usage_get_influx_data(t) ==
    /\ pc[t].at = "influx"
    /\ LET df == HourlyFrame(Engine(t)._range_start, Engine(t)._range_stop, _priority)
           more == Len(WorkFor(df, _plans, _calendar, Engine(t)._range_start,
                               Engine(t)._range_stop)) > 0
       IN  /\ engines' = [engines EXCEPT ![t]._frame = NewObject(frame)]
           /\ frame' = Bind(frame, NewObject(frame), df)
           /\ pc' = At(t, IF more THEN "reports" ELSE "assemble", "POST")
    /\ UNCHANGED <<response, history, config_file, classVars, agents_made, outcome,
                   rangeVars, _lock, config_read>>

usage_add_energy_reports(t) ==
    /\ pc[t].at = "reports"
    /\ LET item == EngineItem(t)
           st == _add_energy_reports(EngineState(t), item.period.tariff, item.tariff_idx,
                                     _plans[item.entry.plan])
       IN  /\ frame' = [frame EXCEPT ![Engine(t)._frame] = st.frame]
           /\ _report_cols' = [_report_cols EXCEPT ![Engine(t)._report_cols] = st.report_cols]
           /\ pc' = At(t, IF st.ok THEN "agent" ELSE "done", "POST")
    /\ UNCHANGED <<engines, response, history, config_file, classVars, agents_made, outcome,
                   _range_start, _range_stop, calls, invocations, _lock, config_read>>

usage_agent(t) ==
    /\ pc[t].at = "agent"
    /\ LET item == EngineItem(t)
           st == AgentCall(EngineState(t), item.entry, item.call, _plans[item.entry.plan],
                           item.schedule, item.period, item.tariff_idx)
       IN  /\ frame' = [frame EXCEPT ![Engine(t)._frame] = st.frame]
           /\ _report_cols' = [_report_cols EXCEPT ![Engine(t)._report_cols] = st.report_cols]
           /\ invocations' = [invocations EXCEPT ![t] = st.invocations]
           /\ agents_made' = st.made
           /\ pc' = At(t, IF ~st.ok THEN "done"
                          ELSE IF Len(st.invocations) < Len(EngineWork(t)) THEN "reports"
                          ELSE "assemble", "POST")
    /\ UNCHANGED <<engines, response, history, config_file, classVars, outcome,
                   _range_start, _range_stop, calls, _lock, config_read>>

usage_frame_to_json_tables(t) ==
    /\ pc[t].at = "assemble"
    /\ LET json == FrameToJsonTables(FrameOf(t), ReportColsOf(t))
       IN  /\ _report_cols' = [_report_cols EXCEPT ![Engine(t)._report_cols] = json.report_cols]
           /\ response' = [response EXCEPT ![t] = json.table]
    /\ pc' = At(t, "done", "POST")
    /\ UNCHANGED <<engines, history, config_file, classVars, agents_made, outcome,
                   _range_start, _range_stop, calls, invocations, frame, _lock, config_read>>

\* The configuration is loaded and every thread has made its UsageEngine().
InitIsolation ==
    /\ config_file \in
          { FlatDoc2(<<"GRID_TO_HOME", "SELF_TOTAL">>, << <<"GRID_TO_HOME", 30>> >>,
                     << <<"GRID_TO_HOME", 30>>, <<"SUPPLY_CHARGE", 1>> >>),
            PeakDoc(<< <<"GRID_TO_HOME", 30>> >>, << <<"SELF_TOTAL", 10>> >>) }
    /\ LET loaded == ReloadConfig(ClassDefaults, config_file, 0) IN
          /\ loaded.ok
          /\ _influx_client = loaded.cls._influx_client
          /\ _priority = loaded.cls._priority
          /\ _plans = loaded.cls._plans
          /\ _calendar = loaded.cls._calendar
          /\ agents_made = loaded.made
    /\ engines = [t \in Threads |-> [ _frame |-> NoObject, _report_cols |-> NoObject,
                                      _range_start |-> 0, _range_stop |-> 0 ]]
    /\ frame = <<>>
    /\ _report_cols = <<>>
    /\ invocations = [t \in Threads |-> <<>>]
    /\ response = [t \in Threads |-> <<>>]
    /\ _range_start = 0
    /\ _range_stop = 0
    /\ calls = <<>>
    /\ outcome = "none"
    /\ history = <<>>
    /\ _lock = NoThread
    /\ config_read = [t \in Threads |-> NoConfig]
    /\ pc = [t \in Threads |-> [at |-> "usage", via |-> "POST"]]

NextIsolation ==
    \E t \in Threads :
        \/ usage_begin(t)
        \/ usage_get_influx_data(t)
        \/ usage_add_energy_reports(t)
        \/ usage_agent(t)
        \/ usage_frame_to_json_tables(t)

SpecIsolation == InitIsolation /\ [][NextIsolation]_vars

\* The table of a request for the window served with no other request
\* running.
ServedAlone(range_start, range_stop) ==
    LET df == HourlyFrame(range_start, range_stop, _priority)
        st == ApplyCalls([ ok |-> TRUE, frame |-> df, report_cols |-> <<>>,
                           invocations |-> <<>>, made |-> agents_made, applied |-> 0 ],
                         _plans, _calendar,
                         ResolveCalls(_calendar, range_start, range_stop), 1)
    IN  FrameToJsonTables(st.frame, st.report_cols).table

\* No two instances refer to the same frame or the same report column dict.
OwnObjects ==
    \A t, u \in Threads :
        t # u =>
            /\ Engine(t)._frame # NoObject => Engine(t)._frame # Engine(u)._frame
            /\ Engine(t)._report_cols # NoObject
                  => Engine(t)._report_cols # Engine(u)._report_cols

\* A step leaves the frame and the report columns of every request that
\* did not take it as they were.
NoForeignWrite ==
    \A u \in Threads :
        pc'[u] = pc[u] =>
            /\ engines'[u] = engines[u]
            /\ Engine(u)._frame # NoObject => frame'[Engine(u)._frame] = FrameOf(u)
            /\ Engine(u)._report_cols # NoObject
                  => _report_cols'[Engine(u)._report_cols] = ReportColsOf(u)

\* C19: concurrent requests have frames and report column dicts of their
\* own: no step of one request changes the frame or the report columns of
\* another, in any interleaving, and each request returns the table it
\* returns when served alone.
C19_RequestIsolation ==
    /\ [](OwnObjects /\ \A t \in Threads :
              pc[t].at = "done" =>
                  response[t] = ServedAlone(Engine(t)._range_start, Engine(t)._range_stop))
    /\ [][NoForeignWrite]_vars

\* Two requests for different windows are both between their periods, each
\* with columns registered and agent calls made.
C19_Witness ==
    /\ pc[1].at = "reports"
    /\ pc[2].at = "agent"
    /\ Engine(1)._range_start # Engine(2)._range_start
    /\ Len(invocations[1]) > 0
    /\ Len(ReportColsOf(1)) > 0
    /\ Len(ReportColsOf(2)) > 0

\* ------------------------------------------------------------------------
\* Coverage of the window by the resolver (SpecResolve)
\* ------------------------------------------------------------------------
\* The _apply_calendar calls whose sub-range holds the instant.
Covering(t) == { i \in DOMAIN calls : InCall(calls[i], t) }

InWindow(t) == _range_start <= t /\ t < _range_stop

\* C20 as stated: every instant of [windowStart, windowEnd) is in exactly
\* one sub-range passed to _apply_calendar, for any calendar and window.
C20_ExactlyOneSubRange ==
    outcome = "ok" =>
        \A t \in Instants : InWindow(t) => Cardinality(Covering(t)) = 1

\* C20: every instant of [windowStart, windowEnd) at or after the start of
\* the first calendar entry is in exactly one sub-range passed to
\* _apply_calendar; every other instant (before the first entry's start,
\* with an empty calendar, or outside the window) is in none.
C20_OneSubRangeWithinCalendar ==
    outcome = "ok" =>
        \A t \in Instants :
            Cardinality(Covering(t)) =
                IF InWindow(t) /\ Len(_calendar) > 0 /\ _calendar[1].start_date <= t
                THEN 1 ELSE 0

\* A window that starts before the first entry and ends in a later one:
\* instants of the window before the calendar are in no sub-range, the
\* others in one.
C20_Witness ==
    /\ outcome = "ok"
    /\ Len(_calendar) >= 2
    /\ _range_start < _calendar[1].start_date
    /\ _calendar[2].start_date < _range_stop
    /\ \E t \in Instants : InWindow(t) /\ Covering(t) = {}
    /\ \E t \in Instants : InWindow(t) /\ Covering(t) = {2}

\* ------------------------------------------------------------------------
\* A reload that fails in the calendar (SpecLoad)
\* ------------------------------------------------------------------------
\* The reload raised in _load_calendar: the document was read, its settings
\* and its plans were accepted and it has a calendar.
CalendarStageFailed ==
    /\ outcome = "raised"
    /\ HasCatalog
    /\ "unreadable" \notin DOMAIN config_file
    /\ _init_settings(BaseLoaded.cls, config_file).ok
    /\ PlansUpTo(config_file["plans"], Len(config_file["plans"]), BaseLoaded.made).ok

\* C21: after a reload that fails while the calendar is built, _plans holds
\* the plans of the new document and _calendar is still the complete
\* calendar loaded before the reload.
C21_CalendarFailureHazard ==
    CalendarStageFailed =>
        /\ _plans = PlansUpTo(config_file["plans"], Len(config_file["plans"]),
                              BaseLoaded.made).plans
        /\ _calendar = BaseLoaded.cls._calendar

\* ------------------------------------------------------------------------
\* SpecTorn: one usage() call step by step (thread 1) beside the reloads of
\* do_GET (the other threads); usage() takes no lock
\* ------------------------------------------------------------------------
\* usage.json is one of two configurations for plan S: summer weekdays with
\* a peak period and without one.
TornDocs == { PeriodsDoc(PeakPeriods), PeriodsDoc(OffpeakPeriods) }

Requester == 1
Reloaders == Threads \ { Requester }

\* Hours 12:00 to 20:00 of a Tuesday.
TornWindow == <<36, 44>>

\* usage.json is edited.
edit_config ==
    /\ config_file' \in TornDocs \ { config_file }
    /\ UNCHANGED <<engines, response, history, classVars, agents_made, outcome, rangeVars,
                   frame, threadVars>>

\* do_GET on /usage_engine, served by one of the other threads.
GET_reload(t) == t \in Reloaders /\ do_GET(t)

\* The catalog as it was when the loop over the calendar began.
CatalogRead_AtLoopStart(t) == engines[t].plans_then

\* self._plans in _apply_calendar: the class variable as it is at that step.
CatalogRead(t) == _plans

\* usage(): UsageEngine() found the influx client, the range is set and the
\* frame is pulled and laid out.
usage_core(t) ==
    /\ t = Requester
    /\ pc[t].at = "idle"
    /\ _influx_client # None
    /\ _range_start' = TornWindow[1]
    /\ _range_stop' = TornWindow[2]
    /\ frame' = HourlyFrame(TornWindow[1], TornWindow[2], _priority)
    /\ _report_cols' = <<>>
    /\ invocations' = <<>>
    /\ calls' = <<>>
    /\ pc' = At(t, "periodic", "POST")
    /\ UNCHANGED <<engines, response, history, config_file, classVars, agents_made, outcome,
                   _lock, config_read>>

\* _process_periodic_data: "for entry in self._calendar.values()" takes the
\* dict the class variable holds at that step; the calls the loop makes
\* follow from it and the range.
usage_process_periodic_data(t) ==
    /\ pc[t].at = "periodic"
    /\ engines' = [u \in {t} |->
                     [ calendar |-> _calendar,
                       resolved |-> ResolveCalls(_calendar, _range_start, _range_stop),
                       plans_then |-> _plans ]]
    /\ pc' = At(t, "apply", "POST")
    /\ UNCHANGED <<response, history, config_file, classVars, agents_made, outcome, rangeVars,
                   frame, _lock, config_read>>

\* The next _apply_calendar call of the loop: usage_plan = self._plans[
\* entry.plan], its season's schedules, the reports and the agent.
usage_apply_calendar(t) ==
    /\ pc[t].at = "apply"
    /\ Len(calls) < Len(engines[t].resolved)
    /\ \E call \in { engines[t].resolved[Len(calls) + 1] } :
       \E entry \in { engines[t].calendar[call.entry] } :
       \E plans \in { CatalogRead(t) } :
          IF \/ entry.plan \notin DOMAIN plans
             \/ ~season_defined(plans[entry.plan], entry.season)
          THEN /\ outcome' = "raised"
               /\ pc' = At(t, "done", "POST")
               /\ UNCHANGED <<calls, frame, _report_cols, invocations, agents_made>>
          ELSE \E st \in { ApplyCalendar(RequestState, plans, entry, call) } :
               /\ calls' = Append(calls, [ entry |-> entry,
                                           season_start |-> call.season_start,
                                           season_end |-> call.season_end,
                                           usage_plan |-> plans[entry.plan] ])
               /\ frame' = st.frame
               /\ _report_cols' = st.report_cols
               /\ invocations' = st.invocations
               /\ agents_made' = st.made
               /\ IF st.ok THEN UNCHANGED <<outcome, pc>>
                  ELSE outcome' = "raised" /\ pc' = At(t, "done", "POST")
    /\ UNCHANGED <<engines, response, history, config_file, classVars, _range_start,
                   _range_stop, _lock, config_read>>

\* The loop is over: _frame_to_json_tables and the answer of do_POST.
usage_answer(t) ==
    /\ pc[t].at = "apply"
    /\ Len(calls) = Len(engines[t].resolved)
    /\ LET json == FrameToJsonTables(frame, _report_cols)
       IN  /\ _report_cols' = json.report_cols
           /\ response' = json.table
           /\ outcome' = IF json.ok THEN "ok" ELSE "raised"
    /\ pc' = At(t, "done", "POST")
    /\ UNCHANGED <<engines, history, config_file, classVars, agents_made, _range_start,
                   _range_stop, calls, invocations, frame, _lock, config_read>>

\* The server runs with one of the configurations loaded.
InitTorn ==
    /\ config_file \in TornDocs
    /\ LET loaded == ReloadConfig(ClassDefaults, config_file, 0) IN
          /\ loaded.ok
          /\ _influx_client = loaded.cls._influx_client
          /\ _priority = loaded.cls._priority
          /\ _plans = loaded.cls._plans
          /\ _calendar = loaded.cls._calendar
          /\ agents_made = loaded.made
    /\ outcome = "none"
    /\ history = <<>>
    /\ response = <<>>
    /\ engines = <<>>
    /\ NoRange
    /\ frame = <<>>
    /\ _lock = NoThread
    /\ pc = [t \in Threads |-> [at |-> "idle", via |-> "none"]]
    /\ config_read = [t \in Threads |-> NoConfig]

NextTorn ==
    \/ edit_config
    \/ \E t \in Threads : GET_reload(t)
    \/ \E t \in Threads : acquire(t)
    \/ \E t \in Threads : load_settings(t)
    \/ \E t \in Threads : load_plans(t)
    \/ \E t \in Threads : load_calendar(t)
    \/ \E t \in Threads : usage_core(t)
    \/ \E t \in Threads : usage_process_periodic_data(t)
    \/ \E t \in Threads : usage_apply_calendar(t)
    \/ \E t \in Threads : usage_answer(t)

SpecTorn == InitTorn /\ [][NextTorn]_vars

\* The request thread never holds the reload lock.
RequestLockFree == _lock # Requester

\* An _apply_calendar call uses the plan that the class-level _plans holds
\* under the entry's plan name at the step of the call.
AppliesCurrentCatalog ==
    Len(calls') > Len(calls) =>
        calls'[Len(calls')].usage_plan = _plans[calls'[Len(calls')].entry.plan]

\* The configuration as loaded from a document.
LoadedFrom(doc) == ReloadConfig(ClassDefaults, doc, 0).cls

\* The entry was built from one document and the plan from the other.
TornCall(call) ==
    \E old, new \in TornDocs :
        /\ old # new
        /\ call.entry = LoadedFrom(old)._calendar[1]
        /\ call.usage_plan._seasons = LoadedFrom(new)._plans["S"]._seasons
        /\ call.usage_plan._seasons # LoadedFrom(old)._plans["S"]._seasons

\* C22: usage() reads the class-level _calendar and _plans without the
\* reload lock, each at the step that uses it, so that a reload between the
\* two reads gives the request an entry of one configuration and the plan of
\* another.
C22_TornRead == []RequestLockFree /\ [][AppliesCurrentCatalog]_vars

\* The request applied an entry of the configuration it began with to the
\* plan of the configuration loaded meanwhile, and answered.
C22_Witness ==
    /\ pc[Requester].at = "done"
    /\ response # <<>>
    /\ Len(calls) = 1
    /\ TornCall(calls[1])
    /\ \A ts \in DOMAIN frame : frame[ts][Value("TARIFF")] = "offpeak"

\* ------------------------------------------------------------------------
\* SpecMasks: _process_periodic_data on frames whose sub-range, day and
\* time-of-day masks can be empty
\* ------------------------------------------------------------------------
\* The rows the query returned for the window: every hour, or none from
\* hour 40 on.
GapFrames(w, priority) ==
    { HourlyFrame(w[1], w[2], priority),
      [t \in { u \in w[1] .. (w[2] - 1) : u < 40 } |->
          HourlyFrame(w[1], w[2], priority)[t]] }

\* Plan S of scenario B with a rate table for offpeak alone.
OffpeakOnlyDoc(offpeak) ==
    [PeakDoc(<<>>, offpeak) EXCEPT !.calendar[1][2].tariffs =
        RawTariffs(<< <<"offpeak", offpeak>> >>)]

\* A plan whose second schedule is for every day of the week, the weekdays
\* of the first among them.
OverlapDoc(peak, offpeak) ==
    [PeakDoc(peak, offpeak) EXCEPT !.plans =
        << PlanJson("S", "Simple",
              << <<"Summer", << [schedule |-> "weekday", days |-> Weekdays,
                                 periods |-> PeakPeriods],
                                [schedule |-> "everyday", days |-> Weekdays \o Weekend,
                                 periods |-> OffpeakPeriods] >> >> >>) >>]

InitMasks ==
    /\ \/ \E rates \in RateTables, later \in RateTables :
            config_file = FlatDoc2(<<"GRID_TO_HOME", "SELF_TOTAL">>, rates, later)
       \/ \E peak \in RateTables, offpeak \in RateTables :
            config_file = PeakDoc(peak, offpeak)
       \/ \E offpeak \in RateTables : config_file = OffpeakOnlyDoc(offpeak)
       \/ \E offpeak \in RateTables :
            config_file = OverlapDoc(<< <<"GRID_TO_HOME", 30>> >>, offpeak)
    /\ LET loaded == ReloadConfig(ClassDefaults, config_file, 0) IN
          /\ loaded.ok
          /\ _influx_client = loaded.cls._influx_client
          /\ _priority = loaded.cls._priority
          /\ _plans = loaded.cls._plans
          /\ _calendar = loaded.cls._calendar
          /\ agents_made = loaded.made
    /\ \E w \in RequestWindows :
          /\ _range_start = w[1]
          /\ _range_stop = w[2]
          /\ frame \in GapFrames(w, _priority)
    /\ calls = <<>>
    /\ _report_cols = <<>>
    /\ invocations = <<>>
    /\ outcome = "none"
    /\ history = <<>>
    /\ response = <<>>
    /\ engines = <<>>
    /\ NoThreads

NextMasks == _process_periodic_data

SpecMasks == InitMasks /\ [][NextMasks]_vars

\* The calls the resolver makes for the window and the schedules of a call.
MaskCalls == ResolveCalls(_calendar, _range_start, _range_stop)
MaskSchedules(c) ==
    DictValues(season_schedules(_plans[_calendar[MaskCalls[c].entry].plan],
                                _calendar[MaskCalls[c].entry].season))

\* Every (sub-range, schedule, period) of the request.
Combinations ==
    { combo \in (DOMAIN MaskCalls) \X (1..2) \X (1..MaxPeriods) :
        /\ combo[2] \in DOMAIN MaskSchedules(combo[1])
        /\ combo[3] \in DOMAIN MaskSchedules(combo[1])[combo[2]].periods }

\* The rows of the frame in the sub-range, on the schedule's days and in the
\* period's hours (every hour when the schedule has one period).
RowMask(combo) ==
    LET call == MaskCalls[combo[1]]
        schedule == MaskSchedules(combo[1])[combo[2]]
        period == schedule.periods[combo[3]]
    IN  { t \in DOMAIN frame :
            /\ call.season_start <= t /\ t < call.season_end
            /\ dayofweek(t) \in schedule.days
            /\ \/ Len(schedule.periods) = 1
               \/ TimeOfDay(t) \in HalfOpen(period.start, period.end) }

\* The agent invocations made for the combination.
InvocationsFor(combo) ==
    { i \in DOMAIN invocations :
        /\ invocations[i].season_start = MaskCalls[combo[1]].season_start
        /\ invocations[i].schedule = MaskSchedules(combo[1])[combo[2]].name
        /\ invocations[i].period = MaskSchedules(combo[1])[combo[2]].periods[combo[3]] }

TariffOf(combo) == MaskSchedules(combo[1])[combo[2]].periods[combo[3]].tariff

\* The column names made for a tariff.
TariffColumns(tariff) ==
    { FullName(tariff, value_with_override(col, _col_overrides), unit) :
        col \in DOMAIN PDColName, unit \in { _energy_unit, _cost_unit } }

\* C23: a request that completes has invoked the agent exactly once, on the
\* combination's rows, for each (sub-range, schedule, period) with rows and
\* never for one without; a tariff none of whose combinations has rows has
\* no column registered or written; a request raises only in a combination
\* that has rows, after invoking the agent at most once for each of them.
C23_OncePerNonEmptyMask ==
    /\ outcome # "none" =>
          /\ \A combo \in Combinations :
                /\ Cardinality(InvocationsFor(combo)) <= 1
                /\ RowMask(combo) = {} => InvocationsFor(combo) = {}
                /\ \A i \in InvocationsFor(combo) :
                      invocations[i].tariff_idx = RowMask(combo)
          /\ \A i \in DOMAIN invocations :
                \E combo \in Combinations : i \in InvocationsFor(combo)
          /\ \A combo \in Combinations :
                (\A other \in Combinations :
                    TariffOf(other) = TariffOf(combo) => RowMask(other) = {})
                => \A name \in TariffColumns(TariffOf(combo)) :
                      /\ ~Has(_report_cols, name)
                      /\ name \notin Columns(frame)
    /\ outcome = "ok" =>
          \A combo \in Combinations :
              RowMask(combo) # {} => Cardinality(InvocationsFor(combo)) = 1
    /\ outcome = "raised" => \E combo \in Combinations : RowMask(combo) # {}

\* A completed request over a window with a sub-range without rows.
C23_Witness ==
    /\ outcome = "ok"
    /\ Len(MaskCalls) = 2
    /\ Len(invocations) = 1
    /\ \E combo \in Combinations : combo[1] = 2 /\ RowMask(combo) = {}
    /\ \E combo \in Combinations : combo[1] = 1 /\ RowMask(combo) # {}

\* ------------------------------------------------------------------------
\* The order and the end dates of a loaded calendar (SpecLoad)
\* ------------------------------------------------------------------------
\* C24: after a load that succeeds the calendar's entries are in strictly
\* increasing order of start_date, one for each date of the json, every
\* entry but the last ends where the next one starts and the last has no
\* end date.
C24_CalendarChain ==
    (outcome = "ok" /\ "calendar" \in DOMAIN config_file) =>
        /\ \A i \in DOMAIN _calendar :
              IF i < Len(_calendar)
              THEN /\ _calendar[i].start_date < _calendar[i + 1].start_date
                   /\ _calendar[i].end_date = _calendar[i + 1].start_date
              ELSE _calendar[i].end_date = NoEndDate
        /\ { _calendar[i].start_date : i \in DOMAIN _calendar } = JsonDates(config_file["calendar"])

\* Three entries were loaded from a json that lists the latest date first.
C24_Witness ==
    /\ outcome = "ok"
    /\ Len(config_file["calendar"]) = 3
    /\ Len(_calendar) = 3
    /\ config_file["calendar"][1][1][1] > config_file["calendar"][2][1][1]
    /\ config_file["calendar"][2][1][1] > config_file["calendar"][3][1][1]

\* ------------------------------------------------------------------------
\* The columns of a validated rate table and the columns of the frame
\* (SpecRequest)
\* ------------------------------------------------------------------------
\* The rate names of the table that a frame has no column for, SUPPLY_CHARGE
\* aside.
AbsentColumns(rates, fr) ==
    { rates[k][1] : k \in { j \in DOMAIN rates :
                              /\ rates[j][1] # "SUPPLY_CHARGE"
                              /\ Value(rates[j][1]) \notin Columns(fr) } }

\* C25: with a configuration that loaded and the frame _core_usage leaves,
\* no agent call ends the request by raising for a rate-table column that
\* the frame does not have (every rate name that validation accepts being
\* SUPPLY_CHARGE or the name of a column of the frame).
C25_NoAbsentColumn ==
    ~ /\ pc[1].at = "done"
      /\ outcome = "raised"
      /\ Len(invocations) > 0
      /\ LET item == RequestWork[Len(invocations)]
         IN  AbsentColumns(Get(item.entry.tariffs.tables, item.period.tariff),
                           frame) # {}

\* ------------------------------------------------------------------------
\* The rate table of every period a request reaches (SpecMasks)
\* ------------------------------------------------------------------------
\* The rate tables of the entry of the combination's sub-range.
TablesOf(combo) == _calendar[MaskCalls[combo[1]].entry].tariffs.tables

\* C26: with a configuration that loaded, a request does not end by raising
\* while a period with rows in the frame names a tariff that the entry has
\* no rate table for: entry.tariffs[period.tariff] is there for every period
\* the request reaches.
C26_RateTableForEveryPeriod ==
    outcome = "raised" =>
        \A combo \in Combinations :
            RowMask(combo) # {} => Has(TablesOf(combo), TariffOf(combo))

\* ------------------------------------------------------------------------
\* One tariff period for each row of a sub-range (SpecMasks)
\* ------------------------------------------------------------------------
\* The agent invocations of the sub-range whose rows include t.
AssignedBy(c, t) ==
    { i \in DOMAIN invocations :
        /\ invocations[i].season_start = MaskCalls[c].season_start
        /\ t \in invocations[i].tariff_idx }

\* C27: in a request that completes, within one sub-range every row of the
\* frame is in the rows of at most one period, over all the schedules of the
\* season, for every plan that loaded.
C27_OnePeriodPerRow ==
    outcome = "ok" =>
        \A c \in DOMAIN MaskCalls : \A t \in DOMAIN frame :
            Cardinality(AssignedBy(c, t)) <= 1

\* ------------------------------------------------------------------------
\* The totals of the allocation (SpecAlloc)
\* ------------------------------------------------------------------------
Min(a, b) == IF a <= b THEN a ELSE b

NonNegative(row) ==
    \A m \in {"HOME_DEMAND", "GRID_SUPPLY", "PW_SUPPLY", "SOLAR_SUPPLY"} : row[Value(m)] >= 0

TotalSupply(row) ==
    row[Value("GRID_SUPPLY")] + row[Value("PW_SUPPLY")] + row[Value("SOLAR_SUPPLY")]

\* C28: after _core_usage, for a row of readings that are not negative and
\* any order of the three supplies, the final residual is
\* max(home demand - (grid + battery + solar), 0), the three allocations sum
\* to min(home demand, grid + battery + solar), Grid to Home plus Self
\* consumption is Home Demand, and Grid charging is not negative.
C28_TotalsOrderFree ==
    CoreDone(frame) =>
        \A t \in DOMAIN frame :
            LET row == frame[t] IN
            NonNegative(row) =>
                /\ row[Value("RESIDUAL_DEMAND_FINAL")]
                      = Max(row[Value("HOME_DEMAND")] - TotalSupply(row), 0)
                /\ row[Value("GRID_TO_HOME")] + row[Value("PW_TO_HOME")]
                      + row[Value("SOLAR_TO_HOME")]
                      = Min(row[Value("HOME_DEMAND")], TotalSupply(row))
                /\ row[Value("GRID_TO_HOME")] + row[Value("SELF_TOTAL")]
                      = row[Value("HOME_DEMAND")]
                /\ row[Value("GRID_CHARGING")] >= 0

\* Solar first, then battery, then grid: demand 5 met by solar 2 and
\* battery 3, the grid's 4 left for charging.
C28_Witness ==
    /\ CoreDone(frame)
    /\ _priority = <<"SOLAR_SUPPLY", "PW_SUPPLY", "GRID_SUPPLY">>
    /\ \E t \in DOMAIN frame :
          /\ frame[t][Value("HOME_DEMAND")] = 5
          /\ frame[t][Value("SOLAR_SUPPLY")] = 2
          /\ frame[t][Value("PW_SUPPLY")] = 3
          /\ frame[t][Value("GRID_SUPPLY")] = 4
          /\ frame[t][Value("GRID_TO_HOME")] = 0
          /\ frame[t][Value("GRID_CHARGING")] = 4
          /\ frame[t][Value("RESIDUAL_DEMAND_FINAL")] = 0

\* ------------------------------------------------------------------------
\* The configuration a request is served from (Spec)
\* ------------------------------------------------------------------------
\* The plans are those built from the same json, whichever agent instances
\* they hold.
SamePlans(plans, other) ==
    /\ DOMAIN plans = DOMAIN other
    /\ \A name \in DOMAIN plans :
          [plans[name] EXCEPT !._agent = NoAgent] = [other[name] EXCEPT !._agent = NoAgent]

\* What a load of one of the documents leaves when it returns; _plans and
\* _calendar are that.
CompleteLoads ==
    { LoadedFrom(doc) : doc \in { d \in ServedDocs : ReloadConfig(ClassDefaults, d, 0).ok } }

CompleteLoad ==
    \E loaded \in CompleteLoads :
        /\ SamePlans(_plans, loaded._plans)
        /\ _calendar = loaded._calendar

\* UsageEngine() returns to do_POST, which goes on to usage(), while no
\* thread is in reload_config.
StartsRequest(t) ==
    /\ pc[t].at # "usage"
    /\ pc'[t].at = "usage"
    /\ _lock' = NoThread

\* C29: whenever UsageEngine() has returned and usage() is to run, _plans
\* and _calendar are those of a load that completed; after a first load
\* that raised once the influx client was made, the next UsageEngine()
\* loads again.
C29_ServedFromCompleteLoad ==
    [][\A t \in Threads : StartsRequest(t) => CompleteLoad']_vars

\* ------------------------------------------------------------------------
\* SpecFair: the request threads under fair scheduling. A thread in the
\* body of reload_config keeps running: its next step, whichever of
\* load_settings, load_plans and load_calendar that is, is always possible
\* and is taken (weak fairness). A thread waiting at "with cls._lock" gets
\* the lock if it is free again and again (strong fairness of acquire).
\* ------------------------------------------------------------------------
\* The step of a thread in the body: to the next step of the body or out of
\* reload_config.
BodyStep(t) ==
    /\ InBody(t)
    /\ \E where \in { "plans", "calendar", "idle", "usage" },
          via \in { "GET", "POST", "none" } : pc' = At(t, where, via)

Fairness ==
    \A t \in Threads : SF_vars(acquire(t)) /\ WF_pc(BodyStep(t))

SpecFair == Spec /\ Fairness

\* A step on which a thread leaves the body of reload_config, by return or
\* by exception, leaves the lock free.
ExitReleases ==
    \A t \in Threads : (InBody(t) /\ pc'[t].at \notin { "settings", "plans", "calendar" })
                            => _lock' = NoThread

\* The thread has called reload_config and has not left it.
InReload(t) == pc[t].at \in { "acquire", "settings", "plans", "calendar" }

====
